---------------------------- MODULE Spec2Model ----------------------------
(***************************************************************************)
(* Traversome: heuristic path generator over an assembly graph guided by   *)
(* read-to-graph alignments (traversome/PathGeneratorGraphAlignment.py).   *)
(*                                                                         *)
(* An oriented segment is <<name, end>>, name a vertex number of the graph *)
(* and end a BOOLEAN, as the (v_name, v_end) tuples of the source.  A path *)
(* is a sequence of oriented segments.                                     *)
(***************************************************************************)
EXTENDS Integers, Sequences, FiniteSets, TLC

VARIABLES
    parser,                          \* GraphAlignRecords: the arguments and the lines of the file
    records,                         \* GraphAlignRecords.records
    graph,                           \* self.graph (index into Graphs)
    alignment,                       \* self.alignment: sequence of records
    filter_by_graph,                 \* argument of the last index_readpaths_subpaths
    read_paths,                      \* self.read_paths
    read_paths_counter,              \* self.__read_paths_counter
    starting_subpath_to_readpaths,   \* self.__starting_subpath_to_readpaths
    middle_subpath_to_readpaths,     \* self.__middle_subpath_to_readpaths
    local_max_alignment_len,         \* self.local_max_alignment_len
    read_paths_counter_indexed,      \* self.__read_paths_counter_indexed
    index_calls,                     \* completed calls of index_readpaths_subpaths
    raised,                          \* exception that left the last call, or "none"
    force_circular,                  \* self.force_circular
    hetero_chromosome,               \* self.hetero_chromosome
    num_search,                      \* self.num_search
    num_processes,                   \* self.num_processes
    decay_t,                         \* self.__decay_t
    cov_inert,                       \* self.__cov_inert is not zero
    use_alignment_cov,               \* self.__use_alignment_cov
    contig_coverages,                \* self.contig_coverages
    cov_mean_call,                   \* the calls of __get_cov_mean that are followed
    like_call,                       \* the calls of __cal_multiplicity_like that are followed
    components,                      \* self.components
    components_counts,               \* self.components_counts
    m_components,                    \* manager.list() shared by the workers
    m_components_counts,             \* manager.dict() shared by the workers
    count_search,                    \* count_search / global_vars.count_search
    count_valid,                     \* count_valid / global_vars.count_valid
    lock,                            \* manager.Lock(): 0 when free, else the holder
    event,                           \* manager.Event()
    jobs,                            \* number of jobs given to the pool
    pc,                              \* where each process is; 0 is the main process
    path,                            \* the walk of the traversal of each process
    not_do_reverse,                  \* not_do_reverse of the traversal of each process
    invalid_search,                  \* invalid_search of each process
    new_path_list,                   \* the walks each process has still to publish
    published                        \* every walk counted so far, in order

idxVars == <<graph, alignment, filter_by_graph, read_paths, read_paths_counter,
             starting_subpath_to_readpaths, middle_subpath_to_readpaths,
             local_max_alignment_len, read_paths_counter_indexed, index_calls,
             raised>>

cfgVars == <<force_circular, hetero_chromosome, num_search, num_processes,
             decay_t, cov_inert, use_alignment_cov>>

covVars == <<contig_coverages, cov_mean_call, like_call>>

parseVars == <<parser, records>>

storeVars == <<components, components_counts, m_components, m_components_counts,
               count_search, count_valid, published>>

syncVars == <<lock, event, jobs>>

procVars == <<pc, path, not_do_reverse, invalid_search, new_path_list>>

vars == <<idxVars, cfgVars, covVars, parseVars, storeVars, syncVars, procVars>>

-----------------------------------------------------------------------------
(* Bounds of the model *)

\* longest alignment of the input, in records
MaxRecords == 3
\* calls of index_readpaths_subpaths on one generator
MaxIndexCalls == 2

\* largest num_search
MaxSearch == 2
\* largest num_processes
MaxProc == 2
\* longest walk a traversal builds
MaxWalkLen == 6
\* value at which the count of traversals stops being followed
MaxTraversals == 3

\* local_max_alignment_len before the first ingestion (None in the source)
NoneLen == -1

-----------------------------------------------------------------------------
(* The assembly graph: vertex_info[v].len, .cov and .connections[end] *)

A == 1
B == 2
C == 3

Fw(v) == <<v, TRUE>>
Rv(v) == <<v, FALSE>>

\* An edge joins two vertex ends; connections are symmetric.
Link(x, y) == {x, y}

\* 1: the single loop A->B->A.  2: the dead-end line A->B->C.
\* 3: A followed by B in either orientation, back to A (an inversion).
\* 4: the loop A->B->A with the spur A->C.
\* 5: A followed by B or by C in either orientation.
\* 6: the circle A B C whose part B C is also passed with A reversed.
Graphs ==
    << [nv |-> 2, len |-> <<1, 1>>, cov |-> <<30, 30>>,
        edges |-> {Link(Fw(A), Rv(B)), Link(Fw(B), Rv(A))}],
       [nv |-> 3, len |-> <<1, 1, 1>>, cov |-> <<30, 30, 30>>,
        edges |-> {Link(Fw(A), Rv(B)), Link(Fw(B), Rv(C))}],
       [nv |-> 2, len |-> <<1, 1>>, cov |-> <<30, 30>>,
        edges |-> {Link(Fw(A), Rv(B)), Link(Fw(A), Fw(B)),
                   Link(Fw(B), Rv(A)), Link(Rv(B), Rv(A))}],
       [nv |-> 3, len |-> <<1, 1, 1>>, cov |-> <<30, 30, 30>>,
        edges |-> {Link(Fw(A), Rv(B)), Link(Fw(B), Rv(A)), Link(Fw(A), Rv(C))}],
       [nv |-> 3, len |-> <<1, 1, 1>>, cov |-> <<30, 30, 30>>,
        edges |-> {Link(Fw(A), Rv(B)), Link(Fw(A), Rv(C)), Link(Fw(A), Fw(C))}],
       [nv |-> 3, len |-> <<1, 1, 1>>, cov |-> <<30, 30, 30>>,
        edges |-> {Link(Fw(A), Rv(B)), Link(Fw(B), Rv(C)), Link(Fw(C), Fw(A)),
                   Link(Rv(A), Rv(C)), Link(Fw(C), Rv(B)), Link(Fw(B), Rv(A))}] >>

\* the graphs of the runs that start from an alignment
RunGraphs == 1 .. 5

vertex_info(g) == 1 .. Graphs[g].nv

vertex_len(g, v) == Graphs[g].len[v]

VertexEnds(g) == vertex_info(g) \X BOOLEAN

\* self.graph.vertex_info[v].connections[e]
connections(g, v, e) == {x \in VertexEnds(g) : Link(<<v, e>>, x) \in Graphs[g].edges}

-----------------------------------------------------------------------------
(* Path algebra of the graph *)

Min(a, b) == IF a < b THEN a ELSE b
Max(a, b) == IF a > b THEN a ELSE b

RECURSIVE SumSeq(_)
SumSeq(s) == IF s = <<>> THEN 0 ELSE Head(s) + SumSeq(Tail(s))

\* python slice p[i:j] with 0 <= i, j
Slice(p, i, j) == SubSeq(p, i + 1, Min(j, Len(p)))

\* tuple order of python on (name, end): names first, then False < True
SegLT(a, b) == a[1] < b[1] \/ (a[1] = b[1] /\ a[2] = FALSE /\ b[2] = TRUE)

\* python's order on lists of tuples
PathLT(p, q) ==
    LET n == Min(Len(p), Len(q))
        diff == {i \in 1 .. n : p[i] # q[i]}
    IN  IF diff = {} THEN Len(p) < Len(q)
        ELSE LET i == CHOOSE j \in diff : \A k \in diff : j <= k
             IN  SegLT(p[i], q[i])

MinPath(S) == CHOOSE p \in S : \A q \in S : p = q \/ PathLT(p, q)

reverse_path(p) == [i \in 1 .. Len(p) |-> <<p[Len(p) + 1 - i][1], ~p[Len(p) + 1 - i][2]>>]

\* x may be followed by y in a path
IsEdge(g, x, y) == <<y[1], ~y[2]>> \in connections(g, x[1], x[2])

contain_path(g, p) ==
    /\ \A i \in 1 .. Len(p) : p[i][1] \in vertex_info(g)
    /\ \A i \in 1 .. Len(p) - 1 : IsEdge(g, p[i], p[i + 1])

is_circular_path(g, p) ==
    /\ p # <<>>
    /\ <<p[1][1], ~p[1][2]>> \in connections(g, p[Len(p)][1], p[Len(p)][2])

get_standardized_path(p) == MinPath({p, reverse_path(p)})

Rotations(p) == {SubSeq(p, i, Len(p)) \o SubSeq(p, 1, i - 1) : i \in 1 .. Len(p)}

get_standardized_circular_path(g, p) ==
    IF is_circular_path(g, p)
    THEN MinPath(Rotations(p) \cup Rotations(reverse_path(p)))
    ELSE get_standardized_path(p)

is_fully_covered_by(g, p) ==
    \A v \in vertex_info(g) : \E i \in 1 .. Len(p) : p[i][1] = v

get_path_length(g, p) == SumSeq([i \in 1 .. Len(p) |-> vertex_len(g, p[i][1])])

get_path_internal_length(g, p) ==
    IF Len(p) <= 2 THEN 0 ELSE get_path_length(g, SubSeq(p, 2, Len(p) - 1))

\* p repeats its first n segments
HasPeriod(p, n) == \A i \in 1 .. Len(p) - n : p[i + n] = p[i]

\* the repeating unit of a path that went around a circle more than once
roll_path(g, p) ==
    LET units == {n \in 1 .. Len(p) - 1 :
                      HasPeriod(p, n) /\ is_circular_path(g, SubSeq(p, 1, n))}
    IN  IF units = {} THEN p
        ELSE SubSeq(p, 1, CHOOSE n \in units : \A m \in units : n <= m)

-----------------------------------------------------------------------------
(* The alignment records given to the generator *)

\* raw paths of alignment records, per graph: in and out of the graph,
\* in both orientations, with repeated segments
RawPaths(g) ==
    CASE g = 1 -> { <<Fw(A), Fw(B)>>, <<Rv(B), Rv(A)>>, <<Fw(B), Fw(A), Fw(B)>>,
                    <<Fw(A), Fw(B), Fw(A), Fw(B), Fw(A)>>, <<Fw(A), Fw(A)>> }
      [] g = 2 -> { <<Fw(A), Fw(B)>>, <<Fw(A), Fw(B), Fw(C)>>, <<Rv(C), Rv(B)>>,
                    <<Fw(B)>>, <<Fw(A), Fw(C)>> }
      [] g = 3 -> { <<Fw(A), Fw(B), Fw(A)>>, <<Fw(A), Rv(B), Fw(A)>>,
                    <<Fw(A), Fw(B), Fw(A), Rv(B)>>, <<Fw(B), Fw(B)>> }
      [] g = 4 -> { <<Fw(A), Fw(B)>>, <<Fw(B), Fw(A), Fw(C)>>, <<Fw(C), Fw(C)>> }
      [] g = 5 -> { <<Fw(A)>>, <<Fw(A), Fw(B)>>, <<Fw(C), Fw(C)>> }

\* p_align_len of a record
AlignLens == {1, 2}

Records(g) == [path : RawPaths(g), p_align_len : AlignLens]

SeqsUpTo(S, n) == UNION {[1 .. k -> S] : k \in 0 .. n}

Rec(p, n) == [path |-> p, p_align_len |-> n]

\* the least decay_t that __init__ accepts
MinDecayT == 100

\* n records alike
Copies(rec, n) == [i \in 1 .. n |-> rec]

\* the alignments of the generation runs, per graph
RunAlignments(g) ==
    CASE g = 1 -> { <<Rec(<<Fw(A), Fw(B)>>, 2)>>,
                    <<Rec(<<Fw(B), Fw(A), Fw(B)>>, 1)>>,
                    <<Rec(<<Fw(A), Fw(B), Fw(A), Fw(B), Fw(A)>>, 2), Rec(<<Rv(B), Rv(A)>>, 1)>> }
      [] g = 2 -> { <<Rec(<<Fw(A), Fw(B)>>, 1)>>,
                    <<Rec(<<Fw(B)>>, 1), Rec(<<Fw(A), Fw(B), Fw(C)>>, 2)>>,
                    <<Rec(<<Fw(A), Fw(C)>>, 1)>> }
      [] g = 3 -> { <<Rec(<<Fw(A), Fw(B), Fw(A), Rv(B)>>, 2)>>,
                    <<Rec(<<Fw(A), Fw(B), Fw(A)>>, 1), Rec(<<Fw(A), Rv(B), Fw(A)>>, 1)>>,
                    <<Rec(<<Fw(B), Fw(B)>>, 1), Rec(<<Fw(A), Fw(B)>>, 2)>>,
                    <<Rec(<<Fw(A), Fw(B), Fw(A), Rv(B)>>, 2), Rec(<<Fw(B), Fw(A)>>, 1)>> }
      [] g = 4 -> { <<Rec(<<Fw(A), Fw(B)>>, 2)>>,
                    <<Rec(<<Fw(B), Fw(A), Fw(C)>>, 2)>> }
      [] g = 5 -> { <<Rec(<<Fw(A)>>, 1)>> }

\* the alignments of the serial runs, per graph: on the loop also one read
\* aligned as often as the least decay_t, and a read that overlaps more
SerialAlignments(g) ==
    RunAlignments(g) \cup
        (IF g = 1
         THEN { Copies(Rec(<<Fw(A), Fw(B), Fw(A)>>, 2), MinDecayT)
                    \o <<Rec(<<Fw(B), Fw(A), Fw(B)>>, 1)>> }
         ELSE {})

\* cov_inert and use_alignment_cov of the generation runs, per graph: the
\* defaults, and every value on the graph where a walk end has more than two
\* neighbours and weights by coverage are drawn
RunTunings(g) ==
    IF g = 5 THEN BOOLEAN \X BOOLEAN ELSE {<<TRUE, FALSE>>}

-----------------------------------------------------------------------------
(* index_readpaths_subpaths *)

EmptyMap == [x \in {} |-> 0]

\* the only element of a singleton; {e : x \in {v}} gives x the value of v
The(S) == CHOOSE x \in S : TRUE

\* a summary that takes every record
KeptAll(g, f, rec) == TRUE

\* the record is summarized: lines 146 and 155
Kept(g, f, rec) == ~f \/ contain_path(g, get_standardized_path(rec.path))

\* the kept records, in order
KeptRecords(g, f, recs) == SelectSeq(recs, LAMBDA rec : Kept(g, f, rec))

\* a summary that lists the path of every record
RECURSIVE SummarizeAppend(_, _, _)
SummarizeAppend(recs, cnt, rps) ==
    IF recs = <<>> THEN [counter |-> cnt, paths |-> rps]
    ELSE LET p == get_standardized_path(Head(recs).path)
         IN  IF p \in DOMAIN cnt
             THEN SummarizeAppend(Tail(recs), [cnt EXCEPT ![p] = @ + 1], Append(rps, p))
             ELSE SummarizeAppend(Tail(recs), cnt @@ (p :> 1), Append(rps, p))

\* lines 143-163: the loop over the records, from counter cnt and list rps;
\* the records are taken in order, the first half and then the second
RECURSIVE Summarize(_, _, _)
Summarize(recs, cnt, rps) ==
    IF recs = <<>> THEN [counter |-> cnt, paths |-> rps]
    ELSE IF Len(recs) = 1
    THEN LET p == get_standardized_path(Head(recs).path)
         IN  IF p \in DOMAIN cnt
             THEN [counter |-> [cnt EXCEPT ![p] = @ + 1], paths |-> rps]
             ELSE [counter |-> cnt @@ (p :> 1), paths |-> Append(rps, p)]
    ELSE The({Summarize(SubSeq(recs, Len(recs) \div 2 + 1, Len(recs)),
                        first.counter, first.paths) :
              first \in {Summarize(SubSeq(recs, 1, Len(recs) \div 2), cnt, rps)}})

OrientedRead(rp, strand) == IF strand THEN rp ELSE reverse_path(rp)

\* an index of the starts that takes the whole read as well
StartCallsWhole(rps) ==
    UNION { { <<Slice(OrientedRead(rps[id + 1], strand), 0, sub_contig_num), <<id, strand>>>> :
                sub_contig_num \in 1 .. Len(rps[id + 1]) } :
            id \in 0 .. Len(rps) - 1, strand \in BOOLEAN }

\* lines 168-172: the calls of __index_start_subpath for the reads rps
StartCalls(rps) ==
    UNION { { <<Slice(OrientedRead(rps[id + 1], strand), 0, sub_contig_num), <<id, strand>>>> :
                sub_contig_num \in 1 .. Len(rps[id + 1]) - 1 } :
            id \in 0 .. Len(rps) - 1, strand \in BOOLEAN }

\* windows taken from the first segment on
MiddleCallsFromStart(rps) ==
    UNION { UNION { { <<Slice(OrientedRead(rps[id + 1], strand), go_sub, go_sub + sub_contig_num),
                        <<id, strand>>>> :
                      go_sub \in 0 .. Len(rps[id + 1]) - sub_contig_num - 1 } :
                    sub_contig_num \in 1 .. Len(rps[id + 1]) - 1 } :
            id \in 0 .. Len(rps) - 1, strand \in BOOLEAN }

\* windows taken up to the last segment
MiddleCallsToEnd(rps) ==
    UNION { UNION { { <<Slice(OrientedRead(rps[id + 1], strand), go_sub, go_sub + sub_contig_num),
                        <<id, strand>>>> :
                      go_sub \in 1 .. Len(rps[id + 1]) - sub_contig_num } :
                    sub_contig_num \in 1 .. Len(rps[id + 1]) - 1 } :
            id \in 0 .. Len(rps) - 1, strand \in BOOLEAN }

\* lines 175-181: the calls of __index_middle_subpath for the reads rps
MiddleCalls(rps) ==
    UNION { UNION { { <<Slice(OrientedRead(rps[id + 1], strand), go_sub, go_sub + sub_contig_num),
                        <<id, strand>>>> :
                      go_sub \in 1 .. Len(rps[id + 1]) - sub_contig_num - 1 } :
                    sub_contig_num \in 1 .. Len(rps[id + 1]) - 1 } :
            id \in 0 .. Len(rps) - 1, strand \in BOOLEAN }

\* __index_start_subpath / __index_middle_subpath applied for every call
IndexAll(index, calls) ==
    LET keys == DOMAIN index \cup {c[1] : c \in calls}
    IN  [k \in keys |->
            (IF k \in DOMAIN index THEN index[k] ELSE {})
            \cup {c[2] : c \in {d \in calls : d[1] = k}}]

\* the first of the sorted lengths
MinOf(S) == CHOOSE x \in S : \A y \in S : x <= y

\* line 183: sorted(alignment_lengths)[-1]
MaxOf(S) == CHOOSE x \in S : \A y \in S : y <= x

index_readpaths_subpaths(f) ==
    \E kept \in {KeptRecords(graph, f, alignment)} :
    \E done \in {Summarize(kept, EmptyMap, read_paths)} :
    \E alignment_lengths \in {{kept[i].p_align_len : i \in 1 .. Len(kept)}} :
        /\ index_calls < MaxIndexCalls
        /\ filter_by_graph' = f
        /\ read_paths_counter' = done.counter
        /\ read_paths' = done.paths
        /\ starting_subpath_to_readpaths' =
               IndexAll(starting_subpath_to_readpaths, StartCalls(done.paths))
        /\ middle_subpath_to_readpaths' =
               IndexAll(middle_subpath_to_readpaths, MiddleCalls(done.paths))
        /\ index_calls' = index_calls + 1
        /\ IF alignment_lengths = {}
           THEN \* sorted([])[-1]
                /\ raised' = "IndexError"
                /\ UNCHANGED <<local_max_alignment_len, read_paths_counter_indexed>>
           ELSE /\ raised' = "none"
                /\ local_max_alignment_len' = MaxOf(alignment_lengths)
                /\ read_paths_counter_indexed' = TRUE
        /\ UNCHANGED <<graph, alignment>>

IndexCall ==
    /\ \E f \in BOOLEAN : index_readpaths_subpaths(f)
    /\ UNCHANGED <<cfgVars, parseVars, covVars, storeVars, syncVars, procVars>>

-----------------------------------------------------------------------------
(* __decompose_hetero_units *)

RECURSIVE Gcd(_, _)
Gcd(a, b) == IF b = 0 THEN a ELSE Gcd(b, a % b)

\* find_greatest_common_divisor of a list of counts
RECURSIVE find_greatest_common_divisor(_)
find_greatest_common_divisor(counts) ==
    IF Len(counts) = 1 THEN counts[1]
    ELSE Gcd(Head(counts), find_greatest_common_divisor(Tail(counts)))

\* int(a / b) of python for b > 0: the quotient cut towards zero
IntDiv(a, b) == IF a >= 0 THEN a \div b ELSE -((-a) \div b)

Names(p) == [i \in 1 .. Len(p) |-> p[i][1]]

\* get_v_counts: how often each vertex of the graph is in the list of names
get_v_counts(g, names) ==
    [v \in vertex_info(g) |-> Cardinality({i \in 1 .. Len(names) : names[i] = v})]

\* lines 357-373: the offsets at which every unit has the counts of a unit
UnitStarts(g, v_list, reseed_at, gcd) ==
    The({ {t \in 0 .. unit_len - 1 :
              \A go_u \in 0 .. gcd - 1 :
                  get_v_counts(g, Slice(v_list_shuffled, t + unit_len * go_u,
                                        t + unit_len * (go_u + 1))) = unit_counts}
          : unit_len \in {Len(v_list) \div gcd},
            unit_counts \in {[v \in vertex_info(g) |-> get_v_counts(g, v_list)[v] \div gcd]},
            v_list_shuffled \in {Slice(v_list, Len(v_list) - reseed_at, Len(v_list))
                                     \o v_list \o Slice(v_list, 0, Len(v_list) \div gcd)} })

\* lines 383-391: the circular blocks from go_unit on
RECURSIVE UnitBlocks(_, _, _, _, _)
UnitBlocks(g, path_shuffled, try_start, block_len, go_unit) ==
    IF go_unit < 0 THEN <<>>
    ELSE The({ UnitBlocks(g, path_shuffled, try_start, block_len, go_unit - 1)
                   \o (IF is_circular_path(g, this_path)
                       THEN <<get_standardized_circular_path(g, this_path)>>
                       ELSE <<>>)
               : this_path \in {Slice(path_shuffled, try_start + block_len * go_unit,
                                      try_start + block_len * (go_unit + 1))} })

\* the list returned for circular_path when randint gives reseed_at
decompose_hetero_units(g, circular_path, reseed_at, lmax) ==
    The({ IF gcd = 1 \/ starts = {} THEN <<circular_path>>
          ELSE The({ The({ UnitBlocks(g, path_shuffled, try_start, unit_len * unit_copy_num,
                                      (gcd \div unit_copy_num) - 1)
                           : unit_copy_num \in
                                 {Min(Max(IntDiv(lmax - 2,
                                                 get_path_length(g, Slice(path_shuffled, try_start,
                                                                          try_start + unit_len))),
                                          1), gcd)} })
                     : unit_len \in {Len(circular_path) \div gcd},
                       try_start \in {CHOOSE t \in starts : \A u \in starts : t <= u},
                       path_shuffled \in
                           {Slice(circular_path, Len(circular_path) - reseed_at, Len(circular_path))
                                \o circular_path \o Slice(circular_path, 0, Len(circular_path) \div gcd)} })
          : gcd \in {find_greatest_common_divisor(get_v_counts(g, Names(circular_path)))},
            starts \in {UnitStarts(g, Names(circular_path), reseed_at,
                                   find_greatest_common_divisor(get_v_counts(g, Names(circular_path))))} })

\* the values randint(0, unit_len - 1) can give for circular_path
ReseedChoices(g, circular_path) ==
    LET gcd == find_greatest_common_divisor(get_v_counts(g, Names(circular_path)))
    IN  IF gcd = 1 THEN {0} ELSE 0 .. (Len(circular_path) \div gcd) - 1

\* lines 241-244 and 275-278: the lists a valid new_path can give
NewPathLists(g, new_path, lmax) ==
    IF Len(new_path) >= Cardinality(vertex_info(g)) * 2
    THEN {decompose_hetero_units(g, new_path, r, lmax) : r \in ReseedChoices(g, new_path)}
    ELSE {<<new_path>>}

\* get_single_traversal applied to the walk that __heuristic_extend_path returned
get_single_traversal(g, walk) == get_standardized_circular_path(g, roll_path(g, walk))

\* the validation without the test of circularity
InvalidSearchNotCircular(g, new_path) ==
    ~hetero_chromosome /\ ~is_fully_covered_by(g, new_path)

\* the validation without the test of coverage
InvalidSearchNotCovered(g, new_path) ==
    force_circular /\ ~is_circular_path(g, new_path)

\* lines 236-237 and 272-273
InvalidSearch(g, new_path) ==
    \/ (force_circular /\ ~is_circular_path(g, new_path))
    \/ (~hetero_chromosome /\ ~is_fully_covered_by(g, new_path))

-----------------------------------------------------------------------------
(* __heuristic_extend_path and __heuristic_check_multiplicity *)

\* decay_t, as __init__ sets it by default
DecayT == 1000

\* decay_t of the serial runs, per graph: the default, and on the loop the
\* least value accepted, which the counts of the reads of one overlap reach
RunDecays(g) == IF g = 1 THEN {MinDecayT, DecayT} ELSE {DecayT}

ReadIds == 0 .. Len(read_paths) - 1

RECURSIVE SumCounts(_)
SumCounts(S) ==
    IF S = {} THEN 0
    ELSE LET e == CHOOSE x \in S : TRUE
         IN  read_paths_counter[read_paths[e[1] + 1]] + SumCounts(S \ {e})

Suffix(p, k) == SubSeq(p, Len(p) - k + 1, Len(p))

\* lines 428-439: the overlaps that have reads in the starting index
CandidateOverlaps(p) ==
    {k \in 1 .. Len(p) :
        /\ \A j \in 1 .. k :
               get_path_internal_length(graph, Suffix(p, j) \o <<<<0, TRUE>>>>)
                   < local_max_alignment_len
        /\ Suffix(p, k) \in DOMAIN starting_subpath_to_readpaths}

\* lines 533-553: the overlaps flattened before num_reads_used reaches decay_t
UsedOverlaps(p) ==
    LET ovl == CandidateOverlaps(p)
        Used(k) == SumCounts(UNION {{<<e[1], e[2], j>> :
                                        e \in starting_subpath_to_readpaths[Suffix(p, j)]} :
                                    j \in {i \in ovl : i < k}})
    IN  {k \in ovl : Used(k) < decay_t}

\* the candidates (read_id, strand, overlap) one of which is chosen
Candidates(p) ==
    UNION {{<<e[1], e[2], k>> : e \in starting_subpath_to_readpaths[Suffix(p, k)]} :
           k \in UsedOverlaps(p)}

\* a tail taken from the read as stored, whatever the strand
NewExtendStored(c) ==
    Slice(read_paths[c[1] + 1], c[3], Len(read_paths[c[1] + 1]))

\* lines 620-624
NewExtend(c) ==
    LET read_path == OrientedRead(read_paths[c[1] + 1], c[2])
    IN  Slice(read_path, c[3], Len(read_path))

\* lines 419-420
RollStops(p) ==
    /\ Len(p) > Len(roll_path(graph, p))
    /\ get_path_internal_length(graph, p) >= local_max_alignment_len

\* lines 442-446
MiddleJumps(p) ==
    /\ ~RollStops(p)
    /\ CandidateOverlaps(p) = {}
    /\ p \in DOMAIN middle_subpath_to_readpaths

NextConnections(p) == connections(graph, p[Len(p)][1], p[Len(p)][2])

\* lines 865-878: how often each name counts in __get_cov_mean(p, exclude_path);
\* an exclusion larger than the count of the name is logged and left out
CovNames(g, p, exclude_path) ==
    [v \in vertex_info(g) |->
        IF get_v_counts(g, Names(exclude_path))[v] > get_v_counts(g, Names(p))[v]
        THEN get_v_counts(g, Names(p))[v]
        ELSE get_v_counts(g, Names(p))[v] - get_v_counts(g, Names(exclude_path))[v]]

\* lines 866-892, return_std False: the error that leaves the call, or the
\* mean as a fraction.  Each name weighs len * count and has the value
\* coverage / count, so the mean is the sum of coverage * len over the sum of
\* len * count.
get_cov_mean(g, p, exclude_path) ==
    IF p = <<>> THEN [error |-> "AssertionError", num |-> 0, den |-> 0]
    ELSE IF \A v \in vertex_info(g) : CovNames(g, p, exclude_path)[v] = 0
    THEN [error |-> "ZeroDivisionError", num |-> 0, den |-> 0]
    ELSE [error |-> "none",
          num |-> SumSeq([v \in vertex_info(g) |->
                             IF CovNames(g, p, exclude_path)[v] > 0
                             THEN contig_coverages[v] * vertex_len(g, v) ELSE 0]),
          den |-> SumSeq([v \in vertex_info(g) |->
                             vertex_len(g, v) * CovNames(g, p, exclude_path)[v]])]

\* lines 671-674 and 693: current_c, the count of the name in the path that
\* the call was given; current_v_counts is not written in the loop
CurrentC(p, v_name) == Cardinality({j \in 1 .. Len(p) : p[j][1] = v_name})

\* lines 692-723: for each element of proposed_extension the name, the
\* multiplicity of old_like (loc = current_c * old_cov_mean, kept in
\* _old_like_cache by name) and the multiplicity of new_like
\* (loc = (current_c + 1) * new_cov_mean)
cal_multiplicity_like(p, proposed_extension) ==
    [i \in 1 .. Len(proposed_extension) |->
        [name |-> proposed_extension[i][1],
         old  |-> CurrentC(p, proposed_extension[i][1]),
         new  |-> CurrentC(p, proposed_extension[i][1]) + 1]]

\* lines 879-887: the mean is zero, every coverage that counts being zero
ZeroCovMean(g, p, exclude_path) ==
    \A v \in vertex_info(g) : CovNames(g, p, exclude_path)[v] > 0 => contig_coverages[v] = 0

\* exp(-abs(log(cov / current_ave_coverage))) of numpy, warnings off: 0/0 is
\* nan, log(0) is -inf and exp(-inf) is 0
InertiaWeight(cov_zero, current_zero) ==
    IF cov_zero /\ current_zero THEN "nan"
    ELSE IF cov_zero \/ current_zero THEN "zero"
    ELSE "pos"

\* the total of the weights is zero or not finite
Degenerate(weights) ==
    \/ \E c \in DOMAIN weights : weights[c] = "nan"
    \/ \A c \in DOMAIN weights : weights[c] # "pos"

\* random.choices(candidates, weights=weights) where it returns: a candidate
\* of positive weight; with a degenerate total the bisection of the
\* interpreters that do not raise ends at the last candidate
Drawn(weights, last) ==
    IF Degenerate(weights) THEN {last}
    ELSE {c \in DOMAIN weights : weights[c] = "pos"}

\* order of python on (read_id, strand)
ReadLT(a, b) == a[1] < b[1] \/ (a[1] = b[1] /\ a[2] = FALSE /\ b[2] = TRUE)

\* order of the flattened candidates: by overlap, then as sorted
CandLT(a, b) == a[3] < b[3] \/ (a[3] = b[3] /\ ReadLT(a, b))

\* lines 448-454
MiddleWeights(p) ==
    [e \in middle_subpath_to_readpaths[p] |->
        IF cov_inert
        THEN InertiaWeight(ZeroCovMean(graph, read_paths[e[1] + 1], p),
                           ZeroCovMean(graph, p, <<>>))
        ELSE "pos"]

\* line 455: the reads the middle jump may take
MiddleChoices(p) ==
    Drawn(MiddleWeights(p),
          CHOOSE e \in middle_subpath_to_readpaths[p] :
              \A f \in middle_subpath_to_readpaths[p] \ {e} : ReadLT(f, e))

\* line 525
SingleCandidate(p) ==
    /\ Cardinality(CandidateOverlaps(p)) = 1
    /\ \A k \in CandidateOverlaps(p) :
           Cardinality(starting_subpath_to_readpaths[Suffix(p, k)]) = 1

\* lines 589-592 and 611: the tail of candidate c that is scored, cdd_extend
\* and read_paths[r_id][ovl:]; the reversed read of line 591 is dropped
ScoredTail(c) ==
    Slice(read_paths[c[1] + 1], c[3], Len(read_paths[c[1] + 1]))

\* lines 556 and 605: the candidates are weighted by their tails
TailsScored == ~hetero_chromosome \/ cov_inert

\* lines 541-548 and 605-614: the weights handed to line 615
CandidateWeights(p) ==
    [c \in Candidates(p) |->
        IF hetero_chromosome /\ cov_inert
        THEN InertiaWeight(ZeroCovMean(graph, ScoredTail(c), <<>>),
                           ZeroCovMean(graph, p, <<>>))
        ELSE "pos"]

\* lines 525-527 and 615-619: the candidates that may be chosen
CandidateChoices(p) ==
    IF SingleCandidate(p) THEN Candidates(p)
    ELSE Drawn(CandidateWeights(p),
               CHOOSE c \in Candidates(p) : \A d \in Candidates(p) \ {c} : CandLT(d, c))

\* lines 470-504: the weights of the neighbours, more than two
NeighbourWeights(p) ==
    [x \in NextConnections(p) |->
        IF hetero_chromosome /\ cov_inert
        THEN InertiaWeight(contig_coverages[x[1]] = 0, ZeroCovMean(graph, p, <<>>))
        ELSE "pos"]

\* lines 469-506: the neighbours that may be taken; of one or two neighbours
\* the first of list(next_connections), which may be either
ConnectionChoices(p) ==
    IF Cardinality(NextConnections(p)) > 2
    THEN Drawn(NeighbourWeights(p),
               CHOOSE x \in NextConnections(p) :
                   \A y \in NextConnections(p) \ {x} : SegLT(y, x))
    ELSE NextConnections(p)

\* The proposals [ext, likes] that reach __heuristic_check_multiplicity: ext
\* is proposed_extension and likes the length of cached_like_ls.
Proposals(p) ==
    IF RollStops(p) \/ MiddleJumps(p) THEN {}
    ELSE IF CandidateOverlaps(p) # {}
    THEN \* lines 525-641
         LET cdd == Candidates(p)
         IN  UNION {{[ext |-> NewExtend(c), likes |-> n] :
                        n \in IF hetero_chromosome \/ Cardinality(cdd) = 1
                              THEN {0}
                              ELSE {0, Len(NewExtend(c))}} :
                    c \in CandidateChoices(p)}
    ELSE \* lines 466-513
         {[ext |-> <<<<x[1], ~x[2]>>>>,
           likes |-> IF Cardinality(NextConnections(p)) > 2 /\ ~hetero_chromosome
                     THEN 1 ELSE 0] :
          x \in ConnectionChoices(p)}

\* lines 455, 502 and 615: random.choices raises ValueError, the total of the
\* weights being zero or not finite
ChoicesRaise(p) ==
    IF RollStops(p) THEN FALSE
    ELSE IF CandidateOverlaps(p) # {}
    THEN ~SingleCandidate(p) /\ Degenerate(CandidateWeights(p))
    ELSE IF p \in DOMAIN middle_subpath_to_readpaths
    THEN Degenerate(MiddleWeights(p))
    ELSE Cardinality(NextConnections(p)) > 2 /\ Degenerate(NeighbourWeights(p))

\* lines 759-769: a vertex of the extension is not in the path
HasNewVertex(p, ext) ==
    \E i \in 1 .. Len(ext) : \A j \in 1 .. Len(p) : p[j][1] # ext[i][1]

\* lines 767-769 and 791-798: the prefix lengths that may be accepted
AcceptedEnds(p, prop) ==
    IF HasNewVertex(p, prop.ext) THEN {Len(prop.ext)}
    ELSE 1 .. prop.likes

\* a check that may reject any extension
MayRejectAlways(p, prop) == TRUE

\* lines 799-809: every prefix may be rejected
MayReject(p, prop) == ~HasNewVertex(p, prop.ext)

\* lines 514-522: no candidate, no middle read and no next vertex
DeadEnd(p) ==
    /\ ~RollStops(p)
    /\ CandidateOverlaps(p) = {}
    /\ p \notin DOMAIN middle_subpath_to_readpaths
    /\ NextConnections(p) = {}

\* lines 455, 493, 502, 504, 562 and 615: the step asks self.__random for a
\* draw; lines 525-527 and 505-506 take their candidate without one
RandomDraw(p) ==
    IF RollStops(p) THEN FALSE
    ELSE IF CandidateOverlaps(p) # {}
    THEN ~SingleCandidate(p)
    ELSE IF p \in DOMAIN middle_subpath_to_readpaths THEN TRUE
    ELSE Cardinality(NextConnections(p)) > 2

\* lines 464-513: the step extends the walk by a neighbour in the graph
GraphExtends(p) ==
    /\ ~RollStops(p)
    /\ CandidateOverlaps(p) = {}
    /\ p \notin DOMAIN middle_subpath_to_readpaths
    /\ NextConnections(p) # {}

-----------------------------------------------------------------------------
(* __init__ *)

\* the alignment was parsed before the generator is made
NoParser == [alignment_format |-> "none"]

\* the fields of a generator before index_readpaths_subpaths
InitFields ==
    /\ filter_by_graph = TRUE
    /\ read_paths = <<>>
    /\ read_paths_counter = EmptyMap
    /\ starting_subpath_to_readpaths = EmptyMap
    /\ middle_subpath_to_readpaths = EmptyMap
    /\ local_max_alignment_len = NoneLen
    /\ read_paths_counter_indexed = FALSE
    /\ index_calls = 0
    /\ raised = "none"
    /\ contig_coverages = EmptyMap
    /\ cov_mean_call = <<>>
    /\ like_call = <<>>

InitGenerator ==
    /\ InitFields
    /\ parser = NoParser
    /\ records = <<>>

Procs == 0 .. MaxProc

InitRun ==
    /\ components = <<>>
    /\ components_counts = EmptyMap
    /\ m_components = <<>>
    /\ m_components_counts = EmptyMap
    /\ count_search = 0
    /\ count_valid = 0
    /\ published = <<>>
    /\ lock = 0
    /\ event = FALSE
    /\ jobs = 0
    /\ pc = [p \in Procs |-> "idle"]
    /\ path = [p \in Procs |-> <<>>]
    /\ not_do_reverse = [p \in Procs |-> FALSE]
    /\ invalid_search = [p \in Procs |-> FALSE]
    /\ new_path_list = [p \in Procs |-> <<>>]

InitIndex ==
    /\ graph \in RunGraphs
    /\ alignment \in SeqsUpTo(Records(graph), MaxRecords)
    /\ InitGenerator
    /\ force_circular = TRUE
    /\ hetero_chromosome = TRUE
    /\ num_search = 1
    /\ num_processes = 1
    /\ decay_t = DecayT
    /\ cov_inert = TRUE
    /\ use_alignment_cov = FALSE
    /\ InitRun

NextIndex == IndexCall


-----------------------------------------------------------------------------
(* One traversal, __heuristic_extend_path([]), of process p *)

\* __heuristic_extend_path returns walk to get_single_traversal
Return(p, walk) ==
    /\ path' = [path EXCEPT ![p] = walk]
    /\ pc' = [pc EXCEPT ![p] = "ret"]
    /\ UNCHANGED not_do_reverse

Continue(p, walk, ndr) ==
    /\ path' = [path EXCEPT ![p] = walk]
    /\ not_do_reverse' = [not_do_reverse EXCEPT ![p] = ndr]
    /\ UNCHANGED pc

TravFrame == UNCHANGED <<idxVars, cfgVars, parseVars, covVars, storeVars, syncVars, invalid_search, new_path_list>>

\* lines 403-414: a read path and a direction are drawn
Seed(p) ==
    /\ pc[p] = "trav"
    /\ path[p] = <<>>
    /\ \E id \in ReadIds, strand \in BOOLEAN :
           Continue(p, OrientedRead(read_paths[id + 1], strand), FALSE)
    /\ TravFrame

\* lines 418-422
RollStop(p) ==
    /\ pc[p] = "trav"
    /\ path[p] # <<>>
    /\ RollStops(path[p])
    /\ Return(p, roll_path(graph, path[p]))
    /\ TravFrame

\* lines 442-460: the walk is replaced by a read that has it in the middle
MiddleJump(p) ==
    /\ pc[p] = "trav"
    /\ path[p] # <<>>
    /\ MiddleJumps(path[p])
    /\ \E e \in MiddleChoices(path[p]) :
           Continue(p, OrientedRead(read_paths[e[1] + 1], e[2]), FALSE)
    /\ TravFrame

\* a likelihood computation that is given the walk itself, not a copy
PathAfterLikesShared(walk, ext) == walk \o ext

\* lines 482 and 594: __cal_multiplicity_like appends the extension to its
\* path argument (line 729), which is deepcopy(path): the walk stays as it is
PathAfterLikes(walk, ext) == walk

\* lines 508-513 and 635-641: the path handed to __heuristic_check_multiplicity,
\* after the likelihoods of the step, if any, were computed
HeldWalk(walk, prop) ==
    IF prop.likes > 0 THEN PathAfterLikes(walk, prop.ext) ELSE walk

\* lines 767-769 and 795-798: the extension or a prefix of it is appended
ExtendAccept(p) ==
    /\ pc[p] = "trav"
    /\ path[p] # <<>>
    /\ \E prop \in Proposals(path[p]) :
           \E end \in AcceptedEnds(path[p], prop) :
               /\ Len(path[p]) + end <= MaxWalkLen
               /\ Continue(p, HeldWalk(path[p], prop) \o SubSeq(prop.ext, 1, end),
                           not_do_reverse[p])
    /\ TravFrame

\* lines 804-809: no prefix is accepted, the walk turns round
ExtendRejectReverse(p) ==
    /\ pc[p] = "trav"
    /\ path[p] # <<>>
    /\ ~not_do_reverse[p]
    /\ \E prop \in Proposals(path[p]) :
           /\ MayReject(path[p], prop)
           /\ Continue(p, reverse_path(HeldWalk(path[p], prop)), TRUE)
    /\ TravFrame

\* lines 800-803: no prefix is accepted, the traversal ends
ExtendRejectReturn(p) ==
    /\ pc[p] = "trav"
    /\ path[p] # <<>>
    /\ not_do_reverse[p]
    /\ \E prop \in Proposals(path[p]) :
           /\ MayReject(path[p], prop)
           /\ Return(p, HeldWalk(path[p], prop))
    /\ TravFrame

\* lines 518-522
DeadEndReverse(p) ==
    /\ pc[p] = "trav"
    /\ path[p] # <<>>
    /\ DeadEnd(path[p])
    /\ ~not_do_reverse[p]
    /\ Continue(p, reverse_path(path[p]), TRUE)
    /\ TravFrame

\* lines 515-517
DeadEndReturn(p) ==
    /\ pc[p] = "trav"
    /\ path[p] # <<>>
    /\ DeadEnd(path[p])
    /\ not_do_reverse[p]
    /\ Return(p, path[p])
    /\ TravFrame

\* lines 455, 502 and 615: the ValueError of random.choices leaves the
\* traversal, the serial driver and generate_heuristic_components; in a
\* worker it ends the job
WeightsRaise(p) ==
    /\ pc[p] = "trav"
    /\ path[p] # <<>>
    /\ ChoicesRaise(path[p])
    /\ IF p = 0
       THEN /\ pc' = [pc EXCEPT ![0] = "raised"]
            /\ raised' = "ValueError"
       ELSE /\ pc' = [pc EXCEPT ![p] = "w_raised"]
            /\ UNCHANGED raised
    /\ UNCHANGED <<graph, alignment, filter_by_graph, read_paths, read_paths_counter,
                   starting_subpath_to_readpaths, middle_subpath_to_readpaths,
                   local_max_alignment_len, read_paths_counter_indexed, index_calls,
                   cfgVars, parseVars, covVars, storeVars, syncVars, path, not_do_reverse,
                   invalid_search, new_path_list>>

-----------------------------------------------------------------------------
(* generate_heuristic_components *)

\* the count of traversals, followed up to MaxTraversals
CountUp(n) == IF n < MaxTraversals THEN n + 1 ELSE n

\* lines 247-253 and 292-298
Counted(counts, walk) ==
    IF walk \in DOMAIN counts THEN [counts EXCEPT ![walk] = @ + 1] ELSE counts @@ (walk :> 1)

\* a list that takes every counted walk
ListedAlways(list, counts, walk) == Append(list, walk)

\* lines 249-253 and 294-298
Listed(list, counts, walk) ==
    IF walk \in DOMAIN counts THEN list ELSE Append(list, walk)

\* lines 186-195: how often each vertex of the graph is in the read paths
estimate_contig_coverages_from_read_paths(g, rps) ==
    [v \in vertex_info(g) |->
        SumSeq([i \in 1 .. Len(rps) |->
                   Cardinality({j \in 1 .. Len(rps[i]) : rps[i][j][1] = v})])]

\* lines 197-199
use_contig_coverage_from_assembly_graph(g) ==
    [v \in vertex_info(g) |-> Graphs[g].cov[v]]

\* lines 109-126
Generate ==
    /\ pc[0] = "idle"
    /\ index_readpaths_subpaths(TRUE)
    /\ IF raised' # "none"
       THEN /\ pc' = [pc EXCEPT ![0] = "raised"]
            /\ UNCHANGED <<jobs, contig_coverages>>
       ELSE /\ contig_coverages' =
                   IF use_alignment_cov
                   THEN estimate_contig_coverages_from_read_paths(graph, read_paths')
                   ELSE use_contig_coverage_from_assembly_graph(graph)
            /\ IF num_processes = 1
               THEN /\ pc' = [pc EXCEPT ![0] = "while"]
                    /\ UNCHANGED jobs
               ELSE /\ pc' = [pc EXCEPT ![0] = "assign"]
                    /\ jobs' = 0
    /\ UNCHANGED <<cfgVars, parseVars, cov_mean_call, like_call, storeVars, lock, event, path, not_do_reverse,
                   invalid_search, new_path_list>>

(* __gen_heuristic_paths_uni, run by the main process *)

\* line 230
S_While ==
    /\ pc[0] = "while"
    /\ IF count_valid < num_search
       THEN /\ pc' = [pc EXCEPT ![0] = "trav"]
            /\ path' = [path EXCEPT ![0] = <<>>]
            /\ not_do_reverse' = [not_do_reverse EXCEPT ![0] = FALSE]
       ELSE /\ pc' = [pc EXCEPT ![0] = "done"]
            /\ UNCHANGED <<path, not_do_reverse>>
    /\ UNCHANGED <<idxVars, cfgVars, parseVars, covVars, storeVars, syncVars, invalid_search, new_path_list>>

\* lines 231-244
S_Validate ==
    /\ pc[0] = "ret"
    /\ count_search' = CountUp(count_search)
    /\ \E new_path \in {get_single_traversal(graph, path[0])} :
           IF InvalidSearch(graph, new_path)
           THEN /\ pc' = [pc EXCEPT ![0] = "while"]
                /\ invalid_search' = [invalid_search EXCEPT ![0] = TRUE]
                /\ UNCHANGED new_path_list
           ELSE /\ pc' = [pc EXCEPT ![0] = "for"]
                /\ invalid_search' = [invalid_search EXCEPT ![0] = FALSE]
                /\ \E list \in NewPathLists(graph, new_path, local_max_alignment_len) :
                       new_path_list' = [new_path_list EXCEPT ![0] = list]
    /\ UNCHANGED <<idxVars, cfgVars, parseVars, covVars, components, components_counts, m_components,
                   m_components_counts, count_valid, published, syncVars, path,
                   not_do_reverse>>

\* the for loop without its break
SerialBreakNever(valid) == FALSE

\* lines 256-257
SerialBreak(valid) == valid = num_search

\* lines 245-257: one turn of the for loop
S_Publish ==
    /\ pc[0] = "for"
    /\ new_path_list[0] # <<>>
    /\ LET new_path == Head(new_path_list[0])
       IN  /\ count_valid' = count_valid + 1
           /\ components_counts' = Counted(components_counts, new_path)
           /\ components' = Listed(components, components_counts, new_path)
           /\ published' = Append(published, new_path)
           /\ IF SerialBreak(count_valid')
              THEN /\ pc' = [pc EXCEPT ![0] = "while"]
                   /\ new_path_list' = [new_path_list EXCEPT ![0] = <<>>]
              ELSE /\ new_path_list' = [new_path_list EXCEPT ![0] = Tail(@)]
                   /\ UNCHANGED pc
    /\ UNCHANGED <<idxVars, cfgVars, parseVars, covVars, m_components, m_components_counts, count_search,
                   syncVars, path, not_do_reverse, invalid_search>>

\* line 245: the list is used up
S_ForEnd ==
    /\ pc[0] = "for"
    /\ new_path_list[0] = <<>>
    /\ pc' = [pc EXCEPT ![0] = "while"]
    /\ UNCHANGED <<idxVars, cfgVars, parseVars, covVars, storeVars, syncVars, path, not_do_reverse,
                   invalid_search, new_path_list>>

(* __heuristic_traversal_worker_dill_version, run by worker w *)

Workers == 1 .. MaxProc

\* line 267
W_While(w) ==
    /\ pc[w] = "w_while"
    /\ IF count_valid < num_search
       THEN /\ pc' = [pc EXCEPT ![w] = "trav"]
            /\ path' = [path EXCEPT ![w] = <<>>]
            /\ not_do_reverse' = [not_do_reverse EXCEPT ![w] = FALSE]
       ELSE /\ pc' = [pc EXCEPT ![w] = "w_exit"]
            /\ UNCHANGED <<path, not_do_reverse>>
    /\ UNCHANGED <<idxVars, cfgVars, parseVars, covVars, storeVars, syncVars, invalid_search, new_path_list>>

\* lines 270-280
W_Validate(w) ==
    /\ pc[w] = "ret"
    /\ \E new_path \in {get_single_traversal(graph, path[w])} :
           IF InvalidSearch(graph, new_path)
           THEN /\ invalid_search' = [invalid_search EXCEPT ![w] = TRUE]
                /\ new_path_list' = [new_path_list EXCEPT ![w] = <<>>]
           ELSE /\ invalid_search' = [invalid_search EXCEPT ![w] = FALSE]
                /\ \E list \in NewPathLists(graph, new_path, local_max_alignment_len) :
                       new_path_list' = [new_path_list EXCEPT ![w] = list]
    /\ pc' = [pc EXCEPT ![w] = "w_acquire"]
    /\ UNCHANGED <<idxVars, cfgVars, parseVars, covVars, storeVars, syncVars, path, not_do_reverse>>

\* a lock that is given to whoever asks
AcquirableAlways(holder) == TRUE

\* line 283: lock.acquire() returns when no worker holds the lock
Acquirable(holder) == holder = 0

\* line 283
W_Acquire(w) ==
    /\ pc[w] = "w_acquire"
    /\ Acquirable(lock)
    /\ lock' = w
    /\ pc' = [pc EXCEPT ![w] = "w_locked"]
    /\ UNCHANGED <<idxVars, cfgVars, parseVars, covVars, storeVars, event, jobs, path, not_do_reverse,
                   invalid_search, new_path_list>>

\* lines 284-289
W_CountSearch(w) ==
    /\ pc[w] = "w_locked"
    /\ count_search' = CountUp(count_search)
    /\ IF invalid_search[w]
       THEN /\ lock' = 0
            /\ pc' = [pc EXCEPT ![w] = "w_while"]
       ELSE /\ pc' = [pc EXCEPT ![w] = "w_for"]
            /\ UNCHANGED lock
    /\ UNCHANGED <<idxVars, cfgVars, parseVars, covVars, components, components_counts, m_components,
                   m_components_counts, count_valid, published, event, jobs, path,
                   not_do_reverse, invalid_search, new_path_list>>

\* lines 290-291
W_CountValid(w) ==
    /\ pc[w] = "w_for"
    /\ new_path_list[w] # <<>>
    /\ count_valid' = count_valid + 1
    /\ pc' = [pc EXCEPT ![w] = "w_store"]
    /\ UNCHANGED <<idxVars, cfgVars, parseVars, covVars, components, components_counts, m_components,
                   m_components_counts, count_search, published, syncVars, path,
                   not_do_reverse, invalid_search, new_path_list>>

\* a worker that never sets the event
BudgetMetNever(valid) == FALSE

\* line 301
BudgetMet(valid) == valid >= num_search

\* lines 292-303
W_Store(w) ==
    /\ pc[w] = "w_store"
    /\ LET new_path == Head(new_path_list[w])
       IN  /\ m_components_counts' = Counted(m_components_counts, new_path)
           /\ m_components' = Listed(m_components, m_components_counts, new_path)
           /\ published' = Append(published, new_path)
    /\ event' = (event \/ BudgetMet(count_valid))
    /\ new_path_list' = [new_path_list EXCEPT ![w] = Tail(@)]
    /\ pc' = [pc EXCEPT ![w] = "w_for"]
    /\ UNCHANGED <<idxVars, cfgVars, parseVars, covVars, components, components_counts, count_search,
                   count_valid, lock, jobs, path, not_do_reverse, invalid_search>>

\* line 304
W_Release(w) ==
    /\ pc[w] = "w_for"
    /\ new_path_list[w] = <<>>
    /\ lock' = 0
    /\ pc' = [pc EXCEPT ![w] = "w_while"]
    /\ UNCHANGED <<idxVars, cfgVars, parseVars, covVars, storeVars, event, jobs, path, not_do_reverse,
                   invalid_search, new_path_list>>

(* __gen_heuristic_paths_mp_dill_version, run by the main process *)

\* lines 323-329: one more job is given to the pool
D_Assign ==
    /\ pc[0] = "assign"
    /\ jobs' = jobs + 1
    /\ pc' = [pc EXCEPT ![0] = "assigned", ![jobs + 1] = "w_while"]
    /\ UNCHANGED <<idxVars, cfgVars, parseVars, covVars, storeVars, lock, event, path, not_do_reverse,
                   invalid_search, new_path_list>>

\* lines 323 and 330-331
D_AssignCheck ==
    /\ pc[0] = "assigned"
    /\ IF count_valid >= num_search \/ jobs = num_processes
       THEN pc' = [pc EXCEPT ![0] = "join"]
       ELSE pc' = [pc EXCEPT ![0] = "assign"]
    /\ UNCHANGED <<idxVars, cfgVars, parseVars, covVars, storeVars, syncVars, path, not_do_reverse,
                   invalid_search, new_path_list>>

\* a driver that waits for its first job only
FirstJobDone == pc[1] = "w_exit"

\* lines 332-333: every job has returned
AllJobsDone == \A w \in 1 .. jobs : pc[w] = "w_exit"

\* lines 332-334: job.get() of every job
D_Join ==
    /\ pc[0] = "join"
    /\ AllJobsDone
    /\ pc' = [pc EXCEPT ![0] = "wait"]
    /\ UNCHANGED <<idxVars, cfgVars, parseVars, covVars, storeVars, syncVars, path, not_do_reverse,
                   invalid_search, new_path_list>>

\* lines 332-333: job.get() raises the error that ended the job
D_JoinRaise ==
    /\ pc[0] = "join"
    /\ \E k \in 1 .. jobs :
           /\ pc[k] = "w_raised"
           /\ \A j \in 1 .. k - 1 : pc[j] = "w_exit"
    /\ pc' = [pc EXCEPT ![0] = "raised"]
    /\ raised' = "ValueError"
    /\ UNCHANGED <<graph, alignment, filter_by_graph, read_paths, read_paths_counter,
                   starting_subpath_to_readpaths, middle_subpath_to_readpaths,
                   local_max_alignment_len, read_paths_counter_indexed, index_calls,
                   cfgVars, parseVars, covVars, storeVars, syncVars, path, not_do_reverse,
                   invalid_search, new_path_list>>

\* lines 336-342: event.wait(), then the shared store is copied
D_Wait ==
    /\ pc[0] = "wait"
    /\ event
    /\ components_counts' = m_components_counts
    /\ components' = m_components
    /\ pc' = [pc EXCEPT ![0] = "done"]
    /\ UNCHANGED <<idxVars, cfgVars, parseVars, covVars, m_components, m_components_counts, count_search,
                   count_valid, published, syncVars, path, not_do_reverse,
                   invalid_search, new_path_list>>

Init ==
    /\ graph \in RunGraphs
    /\ alignment \in RunAlignments(graph)
    /\ InitGenerator
    /\ force_circular \in BOOLEAN
    /\ hetero_chromosome \in BOOLEAN
    /\ num_search \in 1 .. MaxSearch
    /\ num_processes \in 1 .. MaxProc
    /\ decay_t = DecayT
    /\ \E tuning \in RunTunings(graph) :
           /\ cov_inert = tuning[1]
           /\ use_alignment_cov = tuning[2]
    /\ InitRun

Next ==
    \/ Generate
    \/ S_While
    \/ S_Validate
    \/ S_Publish
    \/ S_ForEnd
    \/ \E p \in Procs : Seed(p)
    \/ \E p \in Procs : RollStop(p)
    \/ \E p \in Procs : MiddleJump(p)
    \/ \E p \in Procs : ExtendAccept(p)
    \/ \E p \in Procs : ExtendRejectReverse(p)
    \/ \E p \in Procs : ExtendRejectReturn(p)
    \/ \E p \in Procs : WeightsRaise(p)
    \/ \E p \in Procs : DeadEndReverse(p)
    \/ \E p \in Procs : DeadEndReturn(p)
    \/ \E w \in Workers : W_While(w)
    \/ \E w \in Workers : W_Validate(w)
    \/ \E w \in Workers : W_Acquire(w)
    \/ \E w \in Workers : W_CountSearch(w)
    \/ \E w \in Workers : W_CountValid(w)
    \/ \E w \in Workers : W_Store(w)
    \/ \E w \in Workers : W_Release(w)
    \/ D_Assign
    \/ D_AssignCheck
    \/ D_Join
    \/ D_JoinRaise
    \/ D_Wait

Spec == Init /\ [][Next]_vars


SpecIndex == InitIndex /\ [][NextIndex]_vars

-----------------------------------------------------------------------------
(* Properties of ingestion *)

\* the (sub-path, (read_id, strand)) entries a read has in an index
EntriesOf(index, id) ==
    {<<k, e>> \in (DOMAIN index) \X (ReadIds \X BOOLEAN) : e \in index[k] /\ e[1] = id}

ReadLen(id) == Len(read_paths[id + 1])

\* sum over k = 1 .. L-2 of (L - k - 1)
MiddleWindows(L) == SumSeq([k \in 1 .. L - 2 |-> L - k - 1])

\* the windows of the oriented read that start at 1 .. L-k-1 (0-based)
InteriorWindows(id, strand) ==
    LET r == OrientedRead(read_paths[id + 1], strand)
    IN  {SubSeq(r, i, j) : i \in 2 .. Len(r) - 1, j \in 2 .. Len(r) - 1} \ {<<>>}

IsPrefixOf(w, r) == Len(w) <= Len(r) /\ SubSeq(r, 1, Len(w)) = w
IsSuffixOf(w, r) == Len(w) <= Len(r) /\ SubSeq(r, Len(r) - Len(w) + 1, Len(r)) = w

\* the records the last call kept
KeptNow == KeptRecords(graph, filter_by_graph, alignment)

FirstAt(p, recs) ==
    CHOOSE i \in 1 .. Len(recs) :
        /\ get_standardized_path(recs[i].path) = p
        /\ \A j \in 1 .. i - 1 : get_standardized_path(recs[j].path) # p

\* C7 as claimed: a second index_readpaths_subpaths with the same arguments
\* leaves read_paths, the counter and both indices as the first call left them.
C7_Idempotent ==
    [][(index_calls >= 1 /\ index_calls' = index_calls + 1
            /\ filter_by_graph' = filter_by_graph)
        => /\ read_paths' = read_paths
           /\ read_paths_counter' = read_paths_counter
           /\ starting_subpath_to_readpaths' = starting_subpath_to_readpaths
           /\ middle_subpath_to_readpaths' = middle_subpath_to_readpaths]_vars

\* C8 as claimed: after ingestion every read path of length L has exactly
\* 2(L-1) starting-suffix entries and exactly 2 * sum_k (L-k-1) middle entries.
C8_ExactCounts ==
    index_calls = 1 =>
        \A id \in ReadIds :
            /\ Cardinality(EntriesOf(starting_subpath_to_readpaths, id)) = 2 * (ReadLen(id) - 1)
            /\ Cardinality(EntriesOf(middle_subpath_to_readpaths, id))
                   = 2 * MiddleWindows(ReadLen(id))

\* C8 amended: after ingestion every read path of length L has exactly 2(L-1)
\* starting-suffix entries; its middle entries are one per distinct interior
\* window and strand, so at most 2 * sum_k (L-k-1), and exactly that many
\* when no window occurs at two interior positions of the oriented read.
C8_Counts ==
    index_calls = 1 =>
        \A id \in ReadIds :
            LET mid == Cardinality(EntriesOf(middle_subpath_to_readpaths, id))
                L == ReadLen(id)
                distinct == Cardinality(InteriorWindows(id, TRUE))
                                + Cardinality(InteriorWindows(id, FALSE))
            IN  /\ Cardinality(EntriesOf(starting_subpath_to_readpaths, id)) = 2 * (L - 1)
                /\ mid = distinct
                /\ mid <= 2 * MiddleWindows(L)
                /\ (Cardinality(InteriorWindows(id, TRUE)) = MiddleWindows(L)
                        => mid = 2 * MiddleWindows(L))

\* a read with a window at two interior positions has been ingested
C8_Witness ==
    /\ index_calls = 1
    /\ \E id \in ReadIds :
           /\ ReadLen(id) >= 4
           /\ Cardinality(EntriesOf(middle_subpath_to_readpaths, id))
                  < 2 * MiddleWindows(ReadLen(id))
    /\ \E id \in ReadIds :
           /\ ReadLen(id) >= 3
           /\ Cardinality(EntriesOf(middle_subpath_to_readpaths, id))
                  = 2 * MiddleWindows(ReadLen(id))

\* C9 as claimed: the window of every middle entry is, by content, neither a
\* prefix nor a suffix of the oriented read.
C9_InteriorByContent ==
    \A w \in DOMAIN middle_subpath_to_readpaths :
        \A e \in middle_subpath_to_readpaths[w] :
            LET r == OrientedRead(read_paths[e[1] + 1], e[2])
            IN  /\ Len(w) < Len(r)
                /\ ~IsPrefixOf(w, r)
                /\ ~IsSuffixOf(w, r)

\* C9 amended: the window of every middle entry is cut from the oriented read
\* at a position that leaves at least one segment before it and one after it;
\* its content may still equal a prefix or a suffix of a read that repeats
\* segments.
C9_InteriorByPosition ==
    \A w \in DOMAIN middle_subpath_to_readpaths :
        \A e \in middle_subpath_to_readpaths[w] :
            /\ e[1] \in ReadIds
            /\ LET r == OrientedRead(read_paths[e[1] + 1], e[2])
               IN  /\ 1 <= Len(w)
                   /\ Len(w) <= Len(r) - 2
                   /\ \E i \in 2 .. Len(r) - Len(w) : SubSeq(r, i, i + Len(w) - 1) = w

\* a middle entry whose window is also a prefix of its read
C9_Witness ==
    \E w \in DOMAIN middle_subpath_to_readpaths :
        \E e \in middle_subpath_to_readpaths[w] :
            IsPrefixOf(w, OrientedRead(read_paths[e[1] + 1], e[2]))

\* C10: after one ingestion read_paths holds each standardised path of a kept
\* record once, in order of first occurrence; the counter has these paths as
\* keys, each counting the kept records of that path, and the counts add up to
\* the number of kept records.
C10_ReadPathsCounter ==
    index_calls = 1 =>
        LET kept == KeptNow
            std(i) == get_standardized_path(kept[i].path)
        IN  /\ \A i, j \in 1 .. Len(read_paths) : i # j => read_paths[i] # read_paths[j]
            /\ {read_paths[i] : i \in 1 .. Len(read_paths)} = {std(i) : i \in 1 .. Len(kept)}
            /\ \A i, j \in 1 .. Len(read_paths) :
                   i < j => FirstAt(read_paths[i], kept) < FirstAt(read_paths[j], kept)
            /\ DOMAIN read_paths_counter = {read_paths[i] : i \in 1 .. Len(read_paths)}
            /\ \A p \in DOMAIN read_paths_counter :
                   /\ read_paths_counter[p] >= 1
                   /\ read_paths_counter[p] = Cardinality({i \in 1 .. Len(kept) : std(i) = p})
            /\ SumSeq([i \in 1 .. Len(read_paths) |-> read_paths_counter[read_paths[i]]])
                   = Len(kept)

\* two records of different raw paths collapsed into one read path, listed
\* after the read path of an earlier record
C10_Witness ==
    /\ index_calls = 1
    /\ Len(read_paths) = 2
    /\ Len(KeptNow) = 3
    /\ read_paths_counter[read_paths[2]] = 2
    /\ KeptNow[2].path # KeptNow[3].path

\* the read paths and the keys of both indices are paths of the graph
AllContained ==
    /\ \A i \in 1 .. Len(read_paths) : contain_path(graph, read_paths[i])
    /\ \A k \in DOMAIN starting_subpath_to_readpaths : contain_path(graph, k)
    /\ \A k \in DOMAIN middle_subpath_to_readpaths : contain_path(graph, k)

\* C11 as claimed: after index_readpaths_subpaths every read path and every
\* key of the two indices is contained by the graph.
C11_ContainedAlways == index_calls >= 1 => AllContained

\* C11 amended: a call of index_readpaths_subpaths with filter_by_graph on
\* adds only read paths and keys that the graph contains: if all were
\* contained before the call (as on a new generator), all are after it.
C11_ContainedWhenFiltered ==
    [][(AllContained /\ index_calls' = index_calls + 1 /\ filter_by_graph')
           => AllContained']_vars

\* a filtered ingestion that dropped a record and indexed middle sub-paths
C11_Witness ==
    /\ index_calls = 1
    /\ filter_by_graph
    /\ Len(KeptNow) < Len(alignment)
    /\ DOMAIN middle_subpath_to_readpaths # {}
    /\ AllContained

-----------------------------------------------------------------------------
(* Properties of a generation run *)

RECURSIVE SumOver(_, _)
SumOver(f, S) ==
    IF S = {} THEN 0
    ELSE LET x == CHOOSE y \in S : TRUE IN f[x] + SumOver(f, S \ {x})

SumValues(f) == SumOver(f, DOMAIN f)

Range(q) == {q[i] : i \in 1 .. Len(q)}

Occurrences(q, x) == Cardinality({i \in 1 .. Len(q) : q[i] = x})

\* the elements of q in order of first occurrence
RECURSIVE FirstOccurrences(_)
FirstOccurrences(q) ==
    IF q = <<>> THEN <<>>
    ELSE LET front == FirstOccurrences(SubSeq(q, 1, Len(q) - 1))
             last == q[Len(q)]
         IN  IF last \in Range(front) THEN front ELSE Append(front, last)

Returned == pc[0] = "done"

Serial == num_processes = 1

\* a traversal in progress can take a step
CanStep(p) ==
    IF path[p] = <<>> THEN ReadIds # {}
    ELSE \/ RollStops(path[p])
         \/ MiddleJumps(path[p])
         \/ ChoicesRaise(path[p])
         \/ DeadEnd(path[p])
         \/ \E prop \in Proposals(path[p]) :
                \/ MayReject(path[p], prop)
                \/ \E end \in AcceptedEnds(path[p], prop) : Len(path[p]) + end <= MaxWalkLen

NoTraversalStuck == \A p \in Procs : pc[p] = "trav" => CanStep(p)

\* C1 as claimed: when generate_heuristic_components returns, the counts of
\* all walks add up to num_search exactly, in both drivers.
C1_ExactBudget == Returned => SumValues(components_counts) = num_search

\* C1 amended: when generate_heuristic_components returns, the counts add up
\* to count_valid, which is at least num_search; with the serial driver it is
\* num_search exactly, with the multi-worker driver it may be more.
C1_Budget ==
    Returned =>
        /\ SumValues(components_counts) = count_valid
        /\ count_valid >= num_search
        /\ (Serial => count_valid = num_search)

\* the workers have counted more walks than num_search
C1_Witness ==
    /\ Returned
    /\ ~Serial
    /\ SumValues(components_counts) > num_search

\* the store the running drivers write
StoreList == IF Serial THEN components ELSE m_components
StoreCounts == IF Serial THEN components_counts ELSE m_components_counts

StoreConsistent(list, counts) ==
    /\ SumValues(counts) = count_valid
    /\ Len(list) <= count_valid
    /\ \A i, j \in 1 .. Len(list) : i # j => list[i] # list[j]
    /\ Range(list) = DOMAIN counts
    /\ \A x \in DOMAIN counts : counts[x] >= 1

\* C2: whenever no worker holds the lock, and between the turns of the serial
\* loop, the counts add up to count_valid, components is no longer than
\* count_valid and has no walk twice, its walks are the keys of the counts,
\* and every count is at least 1.
C2_StoreConsistent ==
    /\ (pc[0] \notin {"idle", "raised"} /\ (Serial \/ lock = 0))
           => StoreConsistent(StoreList, StoreCounts)
    /\ Returned => StoreConsistent(components, components_counts)

\* no one holds the lock after a walk was counted a second time
C2_Witness ==
    /\ ~Serial
    /\ lock = 0
    /\ count_valid >= 2
    /\ Len(m_components) < count_valid
    /\ \E w \in Workers : pc[w] = "trav"

\* C3: with the multi-worker driver, the components the driver copies out are
\* the distinct walks the workers published, each once, in the order of their
\* first publication, with the number of publications as count; no worker
\* publishes after the copy.
C3_FinalCopy ==
    (Returned /\ ~Serial) =>
        /\ components = FirstOccurrences(published)
        /\ DOMAIN components_counts = Range(published)
        /\ \A x \in Range(published) : components_counts[x] = Occurrences(published, x)
        /\ \A w \in 1 .. jobs : pc[w] = "w_exit"

\* two workers ran and two different walks are in the copy
C3_Witness ==
    /\ Returned
    /\ jobs = 2
    /\ Len(components) >= 2
    /\ Len(published) > Len(components)

C5_FullyCovered ==
    ~hetero_chromosome =>
        /\ \A i \in 1 .. Len(published) : is_fully_covered_by(graph, published[i])
        /\ \A x \in Range(components) \cup Range(m_components) : is_fully_covered_by(graph, x)

\* blocks of a decomposed walk have been counted without hetero_chromosome
C5_Witness ==
    /\ ~hetero_chromosome
    /\ \E p \in Procs : pc[p] \in {"for", "w_for"} /\ Len(new_path_list[p]) = 1
                         /\ Len(published) >= 1
                         /\ Len(get_single_traversal(graph, path[p])) > Len(published[Len(published)])

\* a run of the serial driver, which never stops between two statements
InitSerial ==
    /\ graph \in RunGraphs
    /\ alignment \in SerialAlignments(graph)
    /\ InitGenerator
    /\ force_circular \in BOOLEAN
    /\ hetero_chromosome \in BOOLEAN
    /\ num_search \in 1 .. MaxSearch
    /\ num_processes = 1
    /\ decay_t \in RunDecays(graph)
    /\ \E tuning \in RunTunings(graph) :
           /\ cov_inert = tuning[1]
           /\ use_alignment_cov = tuning[2]
    /\ InitRun

NextSerial ==
    \/ Generate
    \/ S_While
    \/ S_Validate
    \/ S_Publish
    \/ S_ForEnd
    \/ Seed(0)
    \/ RollStop(0)
    \/ MiddleJump(0)
    \/ ExtendAccept(0)
    \/ ExtendRejectReverse(0)
    \/ ExtendRejectReturn(0)
    \/ WeightsRaise(0)
    \/ DeadEndReverse(0)
    \/ DeadEndReturn(0)

SpecSerial == InitSerial /\ [][NextSerial]_vars /\ WF_vars(NextSerial)

\* C6 as claimed: on the dead-end line A->B->C with force_circular, where no
\* walk is circular, generate_heuristic_components comes to an end.
C6_Stops == (graph = 2 /\ force_circular) => <>(pc[0] \in {"done", "raised"})

-----------------------------------------------------------------------------
(* Properties of __decompose_hetero_units *)

\* longest walk handed to the validation
MaxUnitWalk == 6
\* largest local_max_alignment_len of a decomposition
MaxAlignLen == 6

\* the walks __heuristic_extend_path may return on graph g: paths of the graph
ReturnedWalks(g) ==
    {p \in SeqsUpTo(VertexEnds(g), MaxUnitWalk) : p # <<>> /\ contain_path(g, p)}

\* the validation of one returned walk, with any local_max_alignment_len
InitDecompose ==
    /\ graph \in {1, 3, 6}
    /\ alignment = <<>>
    /\ InitGenerator
    /\ force_circular \in BOOLEAN
    /\ hetero_chromosome \in BOOLEAN
    /\ num_search = 1
    /\ num_processes = 1
    /\ decay_t = DecayT
    /\ cov_inert = TRUE
    /\ use_alignment_cov = FALSE
    /\ InitRun

StartDecompose ==
    /\ pc[0] = "idle"
    /\ \E walk \in ReturnedWalks(graph), lmax \in 1 .. MaxAlignLen :
           /\ path' = [path EXCEPT ![0] = walk]
           /\ local_max_alignment_len' = lmax
    /\ pc' = [pc EXCEPT ![0] = "ret"]
    /\ UNCHANGED <<graph, alignment, filter_by_graph, read_paths, read_paths_counter,
                   starting_subpath_to_readpaths, middle_subpath_to_readpaths,
                   read_paths_counter_indexed, index_calls, raised,
                   cfgVars, parseVars, covVars, storeVars, syncVars, not_do_reverse, invalid_search,
                   new_path_list>>

NextDecompose == StartDecompose \/ S_Validate

SpecDecompose == InitDecompose /\ [][NextDecompose]_vars

RECURSIVE Concat(_)
Concat(list) == IF list = <<>> THEN <<>> ELSE Head(list) \o Concat(Tail(list))

\* the same circular sequence, read from any segment in either direction
CircularEqual(p, q) ==
    p \in Rotations(q) \cup Rotations(reverse_path(q))

\* the walk that was validated
ValidatedWalk == get_single_traversal(graph, path[0])

\* the validated walk was handed to __decompose_hetero_units, has gcd > 1 and
\* can be split into units of equal composition
Decomposable ==
    /\ pc[0] = "for"
    /\ Len(ValidatedWalk) >= Cardinality(vertex_info(graph)) * 2
    /\ find_greatest_common_divisor(get_v_counts(graph, Names(ValidatedWalk))) > 1
    /\ \E r \in ReseedChoices(graph, ValidatedWalk) :
           UnitStarts(graph, Names(ValidatedWalk), r,
                      find_greatest_common_divisor(get_v_counts(graph, Names(ValidatedWalk)))) # {}

\* C12 as claimed: a decomposable walk is not in the list of blocks, and the
\* blocks in order make up the walk as a circular sequence, no segment dropped
\* and none twice, whatever local_max_alignment_len and the gcd are.
C12_BlocksMakeWalk ==
    Decomposable =>
        /\ \A i \in 1 .. Len(new_path_list[0]) : new_path_list[0][i] # ValidatedWalk
        /\ CircularEqual(Concat(new_path_list[0]), ValidatedWalk)

\* a walk of three units came back as one block of two units
C12_UnitDropped ==
    /\ Decomposable
    /\ Len(ValidatedWalk) = 6
    /\ Len(new_path_list[0]) = 1
    /\ Len(new_path_list[0][1]) = 4

\* a walk of two units came back whole
C12_WalkEmitted ==
    /\ Decomposable
    /\ Len(ValidatedWalk) = 4
    /\ new_path_list[0] = <<ValidatedWalk>>

-----------------------------------------------------------------------------
(* Properties of one step of __heuristic_extend_path *)

\* the process is at the head of __heuristic_extend_path with a walk
Walking(p) == pc[p] = "trav" /\ path[p] # <<>>

\* the extensions the step may hand to __heuristic_check_multiplicity
ProposedExtensions(p) == {prop.ext : prop \in Proposals(p)}

\* C13 as claimed: every choice of a traversal is a function of the inputs
\* and of the random draws: a step that asks for no draw, as the graph
\* extension of a walk whose end has one or two neighbours, has one outcome.
C13_ChoiceDetermined ==
    \A p \in Procs :
        (Walking(p) /\ ~RandomDraw(path[p])) =>
            Cardinality(ProposedExtensions(path[p])) <= 1

\* the serial traverser extends by the graph a walk whose end has two
\* neighbours: no draw is made and either neighbour may be taken
C13_TwoNeighbours ==
    /\ num_processes = 1
    /\ Walking(0)
    /\ GraphExtends(path[0])
    /\ Cardinality(NextConnections(path[0])) = 2
    /\ ~RandomDraw(path[0])
    /\ Cardinality(ProposedExtensions(path[0])) = 2

-----------------------------------------------------------------------------
(* Properties of the lock of __heuristic_traversal_worker_dill_version *)

\* the workers between lock.acquire() and lock.release()
InPublish == {w \in Workers : pc[w] \in {"w_locked", "w_for", "w_store"}}

\* at most one worker is in the publish step, and it is the holder of the lock
OneHolder ==
    /\ Cardinality(InPublish) <= 1
    /\ \A w \in InPublish : lock = w
    /\ lock # 0 => lock \in InPublish

\* a worker that runs a traversal or a decomposition, or is back at the head
\* of its loop, does not hold the lock
FreeOutsidePublish ==
    \A w \in Workers : pc[w] \in {"w_while", "trav", "ret", "w_acquire", "w_exit"} => lock # w

\* the shared store and the counters are written in this step
StoreWritten ==
    \/ m_components' # m_components
    \/ m_components_counts' # m_components_counts
    \/ count_search' # count_search
    \/ count_valid' # count_valid

\* C14: in a run of several workers a step that writes the shared components,
\* components_counts, count_search or count_valid is a step of the worker that
\* holds the lock; at most one worker holds it; no worker holds it during a
\* traversal or a decomposition; and a worker that leaves the publish step,
\* after an invalid walk or a valid one, has released it.
C14_LockGuardsStore ==
    /\ [](num_processes > 1 => OneHolder /\ FreeOutsidePublish)
    /\ [][(num_processes > 1 /\ StoreWritten) =>
              /\ lock \in InPublish
              /\ pc'[lock] # pc[lock]
              /\ \A w \in Workers \ {lock} : pc'[w] = pc[w]]_vars

\* worker 1 publishes a walk under the lock while worker 2, with a finished
\* walk of its own, waits for the lock
C14_Witness ==
    /\ num_processes = 2
    /\ lock = 1
    /\ pc[1] = "w_store"
    /\ pc[2] = "w_acquire"
    /\ count_search >= 1

-----------------------------------------------------------------------------
(* Properties of the weighting steps of __heuristic_extend_path *)

\* the walk is at a weighting step whose weights are all zero or not finite
DegenerateStep(p) == Walking(p) /\ ChoicesRaise(path[p])

\* the candidates of the weighting step at which the walk is
StepCandidates(p) ==
    IF CandidateOverlaps(p) # {} THEN {NewExtend(c) : c \in Candidates(p)}
    ELSE {<<<<x[1], ~x[2]>>>> : x \in NextConnections(p)}

\* C15 as claimed: a weighting step whose weights are all zero or not finite
\* is recovered from in the traverser, any of the candidates may then be
\* chosen, and no error of a weighting step reaches the driver.
C15_UniformRecovery ==
    /\ raised # "ValueError"
    /\ \A p \in Procs :
           (DegenerateStep(p) /\ ~MiddleJumps(path[p])) =>
               ProposedExtensions(path[p]) = StepCandidates(path[p])

\* the serial traverser weights three neighbours by coverage inertia and
\* every weight is zero
C15_ZeroWeights ==
    /\ num_processes = 1
    /\ DegenerateStep(0)
    /\ GraphExtends(path[0])
    /\ Cardinality(NextConnections(path[0])) = 3
    /\ \A x \in NextConnections(path[0]) : NeighbourWeights(path[0])[x] = "zero"

\* the ValueError of random.choices has left generate_heuristic_components
C15_ErrorAtDriver == pc[0] = "raised" /\ raised = "ValueError"

-----------------------------------------------------------------------------
(* Properties of __get_cov_mean *)

\* longest path and exclude_path of a call
MaxCovPath == 2

\* a generator with its coverages set, on the loop with a spur
InitCovMean ==
    /\ graph = 4
    /\ alignment \in RunAlignments(graph)
    /\ InitGenerator
    /\ force_circular = TRUE
    /\ hetero_chromosome = TRUE
    /\ num_search = 1
    /\ num_processes = 1
    /\ decay_t = DecayT
    /\ cov_inert = TRUE
    /\ use_alignment_cov \in BOOLEAN
    /\ InitRun

\* one call __get_cov_mean(path, exclude_path) with paths of the graph's segments
GetCovMean ==
    /\ DOMAIN contig_coverages # {}
    /\ cov_mean_call = <<>>
    /\ \E p \in SeqsUpTo(VertexEnds(graph), MaxCovPath) \ {<<>>},
          e \in SeqsUpTo(VertexEnds(graph), MaxCovPath) :
           cov_mean_call' = <<[path |-> p, exclude_path |-> e,
                               result |-> get_cov_mean(graph, p, e)]>>
    /\ UNCHANGED <<idxVars, cfgVars, parseVars, contig_coverages, like_call, storeVars, syncVars, procVars>>

NextCovMean == Generate \/ GetCovMean

SpecCovMean == InitCovMean /\ [][NextCovMean]_vars

\* the exclusion of the call has a segment more often than the path has
ExclusionExceeds ==
    /\ cov_mean_call # <<>>
    /\ \E v \in vertex_info(graph) :
           get_v_counts(graph, Names(cov_mean_call[1].exclude_path))[v]
               > get_v_counts(graph, Names(cov_mean_call[1].path))[v]

\* C16 as claimed: a call of __get_cov_mean whose exclude_path has a segment
\* more often than the path ends in CoverageExclusionInvalid and gives no mean.
C16_ExclusionFatal ==
    ExclusionExceeds => cov_mean_call[1].result.error = "CoverageExclusionInvalid"

\* __get_cov_mean([A, B], exclude_path=[B, B]) gave the mean of [A, B], the
\* exclusion left out
C16_SilentlySkipped ==
    /\ ExclusionExceeds
    /\ cov_mean_call[1].path = <<Fw(A), Fw(B)>>
    /\ cov_mean_call[1].exclude_path = <<Fw(B), Fw(B)>>
    /\ cov_mean_call[1].result.error = "none"
    /\ cov_mean_call[1].result = get_cov_mean(graph, <<Fw(A), Fw(B)>>, <<>>)
    /\ cov_mean_call[1].result.den = 2

-----------------------------------------------------------------------------
(* Properties of what a traversal leaves alone *)

\* what the traversals read: the read paths, their counter, the two
\* indices, the coverages and the longest alignment
SharedIndex ==
    <<read_paths, read_paths_counter, starting_subpath_to_readpaths,
      middle_subpath_to_readpaths, contig_coverages, local_max_alignment_len>>

\* generate_heuristic_components is past its start
Generated == pc[0] \notin {"idle", "raised"} \/ raised = "ValueError"

\* the walks an extension step of process p may leave behind
StepWalks(p) ==
    {path[p], reverse_path(path[p])}
        \cup UNION {{path[p] \o SubSeq(prop.ext, 1, end) : end \in 1 .. Len(prop.ext)} :
                    prop \in Proposals(path[p])}

\* C17: once generate_heuristic_components has set contig_coverages, which
\* then has a non-negative number for every segment of the graph, no step of
\* a traversal or of a driver changes read_paths, the counter, the two
\* indices, contig_coverages or local_max_alignment_len; and a step that
\* computes likelihoods of an extension leaves the walk as it was, extended by
\* a prefix of the extension, or reversed.
C17_TraversalFrame ==
    /\ [](Generated =>
             /\ DOMAIN contig_coverages = vertex_info(graph)
             /\ \A v \in vertex_info(graph) : contig_coverages[v] >= 0)
    /\ [][pc[0] # "idle" => UNCHANGED SharedIndex]_vars
    /\ [][\A p \in Procs :
              (Walking(p) /\ Proposals(path[p]) # {} /\ pc'[p] \in {"trav", "ret"})
                  => path'[p] \in StepWalks(p)]_vars

\* a traversal on coverages estimated from the reads weights the neighbours
\* of its walk by the likelihoods of their extensions
C17_Witness ==
    /\ Generated
    /\ use_alignment_cov
    /\ \E p \in Procs :
           /\ Walking(p)
           /\ Cardinality(Proposals(path[p])) > 1
           /\ \A prop \in Proposals(path[p]) : prop.likes > 0

-----------------------------------------------------------------------------
(* Properties of local_max_alignment_len *)

\* the records the last ingestion had to keep: all of them without the
\* filter, with it those whose path is a path of the graph
RecordsToKeep ==
    {i \in 1 .. Len(alignment) :
        ~filter_by_graph \/ contain_path(graph, get_standardized_path(alignment[i].path))}

\* C18: after an ingestion that came to its end, local_max_alignment_len is
\* the largest p_align_len of the records to keep, no other record counting,
\* and after the first ingestion read_paths has the paths of just these.
C18_MaxOverKept ==
    (index_calls >= 1 /\ raised = "none") =>
        /\ RecordsToKeep # {}
        /\ \E i \in RecordsToKeep : alignment[i].p_align_len = local_max_alignment_len
        /\ \A i \in RecordsToKeep : alignment[i].p_align_len <= local_max_alignment_len
        /\ index_calls = 1 =>
               Range(read_paths) =
                   {get_standardized_path(alignment[i].path) : i \in RecordsToKeep}

\* the filter dropped the record of the longest alignment, and the records
\* kept have alignments of different lengths
C18_Witness ==
    /\ index_calls = 1
    /\ raised = "none"
    /\ filter_by_graph
    /\ local_max_alignment_len = 1
    /\ \E i \in 1 .. Len(alignment) :
           i \notin RecordsToKeep /\ alignment[i].p_align_len = 2
    /\ Cardinality(RecordsToKeep) = 2

\* with the filter off the record of a path the graph has not gives the
\* longest alignment
C18_WitnessUnfiltered ==
    /\ index_calls = 1
    /\ ~filter_by_graph
    /\ local_max_alignment_len = 2
    /\ \E i \in 1 .. Len(alignment) :
           /\ ~contain_path(graph, get_standardized_path(alignment[i].path))
           /\ alignment[i].p_align_len = 2
           /\ \A j \in 1 .. Len(alignment) : j # i => alignment[j].p_align_len = 1

-----------------------------------------------------------------------------
(* Properties of the reversal of a walk *)

\* C19 as claimed: a traversal that has reversed its walk stays in the mode
\* not_do_reverse = true through every later step, a middle jump included,
\* so that it cannot reverse a second time.
C19_StaysReversed ==
    [][\A p \in Procs :
           (pc[p] = "trav" /\ not_do_reverse[p] /\ pc'[p] = "trav")
               => not_do_reverse'[p]]_vars

\* the serial traverser, its walk reversed once, is about to replace the walk
\* by a read that has it in the middle
C19_JumpAfterReverse ==
    /\ num_processes = 1
    /\ Walking(0)
    /\ not_do_reverse[0]
    /\ MiddleJumps(path[0])

-----------------------------------------------------------------------------
(* Properties of the extension by the graph *)

\* C20 as claimed: in the extension by the graph the only neighbour is taken
\* without a draw when the walk end has exactly one neighbour; with two
\* neighbours or more the next segment is drawn among all of them.
C20_SampledWhenSeveral ==
    \A p \in Procs :
        (Walking(p) /\ GraphExtends(path[p])) =>
            (RandomDraw(path[p]) <=> Cardinality(NextConnections(path[p])) >= 2)

\* a walk whose end has two neighbours, extended without a draw
C20_TwoWithoutDraw ==
    \E p \in Procs :
        /\ Walking(p)
        /\ GraphExtends(path[p])
        /\ Cardinality(NextConnections(path[p])) = 2
        /\ ~RandomDraw(path[p])

-----------------------------------------------------------------------------
(* Properties of the likelihoods handed to __heuristic_check_multiplicity *)

\* the proposals of process p that reach the draws of lines 789-798: every
\* segment of the extension is in the walk already
ContractedProposals(p) ==
    {prop \in Proposals(path[p]) : ~HasNewVertex(path[p], prop.ext)}

\* C21 as claimed: when the multiplicity check is reached with an extension
\* of length m whose segments all occur in the walk, the vector of likelihood
\* ratios it iterates has exactly m entries, so that each prefix length
\* m..1 is given a draw, in every configuration.
C21_LikesForEveryPrefix ==
    \A p \in Procs :
        Walking(p) =>
            \A prop \in ContractedProposals(p) : prop.likes = Len(prop.ext)

\* the serial traverser proposes an extension whose segments are all in the
\* walk, and hands over an empty list of likelihood ratios: no prefix is
\* given a draw and the extension can only be rejected
C21_NoDraw ==
    /\ num_processes = 1
    /\ Walking(0)
    /\ \E prop \in ContractedProposals(0) :
           /\ prop.likes = 0
           /\ AcceptedEnds(path[0], prop) = {}
           /\ MayReject(path[0], prop)

\* C22 as claimed: for every sub-path candidate (read_id, strand, overlap k)
\* the tail that is scored to weight it, and from which the cached likelihoods
\* are computed, is the sequence appended to the walk if the candidate is
\* chosen: the read oriented by strand without its first k segments, for
\* strand = reverse as for strand = forward.
C22_ScoredTailIsAppended ==
    \A p \in Procs :
        (Walking(p) /\ ~RollStops(path[p]) /\ CandidateOverlaps(path[p]) # {}
            /\ ~SingleCandidate(path[p]) /\ TailsScored) =>
            \A c \in Candidates(path[p]) : ScoredTail(c) = NewExtend(c)

\* the serial traverser weights several candidates by their tails, and one
\* of them, of strand reverse, is scored by a tail of the read as stored
\* while the tail appended is that of the reversed read
C22_ReverseScoredForward ==
    /\ num_processes = 1
    /\ Walking(0)
    /\ ~RollStops(path[0])
    /\ CandidateOverlaps(path[0]) # {}
    /\ ~SingleCandidate(path[0])
    /\ TailsScored
    /\ \E c \in Candidates(path[0]) :
           /\ c[2] = FALSE
           /\ ScoredTail(c) # NewExtend(c)
           /\ ScoredTail(c) = Slice(read_paths[c[1] + 1], c[3], Len(read_paths[c[1] + 1]))
           /\ NewExtend(c) = Slice(reverse_path(read_paths[c[1] + 1]), c[3],
                                   Len(read_paths[c[1] + 1]))

-----------------------------------------------------------------------------
(* Properties of the cutoff of the candidates by decay_t *)

\* the step of process p flattens the candidates of several overlaps
Flattens(p) ==
    /\ Walking(p)
    /\ ~RollStops(path[p])
    /\ CandidateOverlaps(path[p]) # {}
    /\ ~SingleCandidate(path[p])

\* the overlaps whose candidates the break of line 553 leaves out
DiscardedOverlaps(p) == CandidateOverlaps(path[p]) \ UsedOverlaps(path[p])

\* C23 as claimed: when the count of the reads of the collected candidates
\* reaches decay_t and the collection stops, the candidates retained are the
\* ones that overlap most with the walk: no candidate is discarded while a
\* candidate of a smaller overlap is retained.
C23_LongestOverlapsRetained ==
    \A p \in Procs :
        Flattens(p) =>
            \A k \in DiscardedOverlaps(p) :
                \A j \in UsedOverlaps(path[p]) : j >= k

\* the serial traverser stops the collection at decay_t: the candidates of
\* overlap 1 are retained and the candidate of overlap 2 is discarded
C23_ShortestRetained ==
    /\ num_processes = 1
    /\ Flattens(0)
    /\ SumCounts(Candidates(path[0])) >= decay_t
    /\ 1 \in UsedOverlaps(path[0])
    /\ 2 \in DiscardedOverlaps(0)

-----------------------------------------------------------------------------
(* Properties of __cal_multiplicity_like *)

\* longest path and proposed_extension of a call
MaxLikePath == 3

\* a generator with its coverages set, on the loop
InitLike ==
    /\ graph = 1
    /\ alignment \in RunAlignments(graph)
    /\ InitGenerator
    /\ force_circular = TRUE
    /\ hetero_chromosome = FALSE
    /\ num_search = 1
    /\ num_processes = 1
    /\ decay_t = DecayT
    /\ cov_inert = TRUE
    /\ use_alignment_cov \in BOOLEAN
    /\ InitRun

\* one call __cal_multiplicity_like(path, proposed_extension), the extension
\* following the path in the graph
CalMultiplicityLike ==
    /\ DOMAIN contig_coverages # {}
    /\ like_call = <<>>
    /\ \E p \in SeqsUpTo(VertexEnds(graph), MaxLikePath) \ {<<>>},
          e \in SeqsUpTo(VertexEnds(graph), MaxLikePath) \ {<<>>} :
           /\ contain_path(graph, p \o e)
           /\ like_call' = <<[path |-> p, proposed_extension |-> e,
                              result |-> cal_multiplicity_like(p, e)]>>
    /\ UNCHANGED <<idxVars, cfgVars, parseVars, contig_coverages, cov_mean_call, storeVars,
                   syncVars, procVars>>

NextLike == Generate \/ CalMultiplicityLike

SpecLike == InitLike /\ [][NextLike]_vars

\* how often the name of the i-th element is among the first n elements of e
NameAmong(e, i, n) == Cardinality({j \in 1 .. n : e[j][1] = e[i][1]})

\* C24 as claimed: for the i-th element (s, .) of the proposed extension the
\* multiplicity of the new likelihood is c plus the occurrences of s in
\* e_1..e_i and that of the old likelihood is c plus the occurrences of s in
\* e_1..e_(i-1), c being the count of s in the walk before the extension,
\* also when s occurs more than once in the extension.
C24_MultiplicityFollowsPrefix ==
    like_call # <<>> =>
        \A i \in 1 .. Len(like_call[1].proposed_extension) :
            /\ like_call[1].result[i].new =
                   CurrentC(like_call[1].path, like_call[1].proposed_extension[i][1])
                       + NameAmong(like_call[1].proposed_extension, i, i)
            /\ like_call[1].result[i].old =
                   CurrentC(like_call[1].path, like_call[1].proposed_extension[i][1])
                       + NameAmong(like_call[1].proposed_extension, i, i - 1)

\* __cal_multiplicity_like([A], [B, A, B]): B, not in the walk, is given the
\* multiplicities 0 and 1 at its second occurrence as at its first
C24_SecondOccurrence ==
    /\ like_call # <<>>
    /\ like_call[1].path = <<Fw(A)>>
    /\ like_call[1].proposed_extension = <<Fw(B), Fw(A), Fw(B)>>
    /\ like_call[1].result[1] = [name |-> B, old |-> 0, new |-> 1]
    /\ like_call[1].result[3] = [name |-> B, old |-> 0, new |-> 1]

-----------------------------------------------------------------------------
(* Properties of the return of a traversal *)

\* process p leaves __heuristic_extend_path with a walk
ReturnStep(p) == pc[p] = "trav" /\ pc'[p] = "ret"

\* C25 as claimed: a traversal returns only (a) at roll-stop, with roll(p),
\* (b) at a dead end reached after the walk was reversed, with p, or (c) at a
\* contraction that rejects every prefix after the walk was reversed, with
\* p; in (b) and (c) the walk returned is the accumulated walk unchanged, and
\* a dead end or a full rejection before any reversal does not end the
\* traversal.
C25_ReturnsOnlyWhen ==
    [][\A p \in Procs :
           /\ ReturnStep(p) =>
                  \/ /\ RollStops(path[p])
                     /\ path'[p] = roll_path(graph, path[p])
                  \/ /\ ~RollStops(path[p])
                     /\ not_do_reverse[p]
                     /\ DeadEnd(path[p])
                     /\ path'[p] = path[p]
                  \/ /\ ~RollStops(path[p])
                     /\ not_do_reverse[p]
                     /\ \E prop \in Proposals(path[p]) : ~HasNewVertex(path[p], prop.ext)
                     /\ path'[p] = path[p]
           /\ (Walking(p) /\ ~RollStops(path[p]) /\ ~not_do_reverse[p]) =>
                  pc'[p] # "ret"]_vars

\* the serial traverser has returned its walk from a contraction that
\* rejected every prefix, the walk reversed before
C25_ReturnedAfterRejection ==
    /\ num_processes = 1
    /\ pc[0] = "ret"
    /\ not_do_reverse[0]
    /\ ~RollStops(path[0])
    /\ \E prop \in Proposals(path[0]) : ~HasNewVertex(path[0], prop.ext)

-----------------------------------------------------------------------------
(* Properties of the event of the multi-worker driver *)

\* the jobs given to the pool
Jobs == 1 .. jobs

\* C26 as claimed: with several workers the event is set inside the critical
\* section in which count_valid first reaches num_search; a worker that
\* observes count_valid >= num_search starts no new traversal, while a walk in
\* progress is still published; so whenever all workers have exited the event
\* is set, and the driver, which waits for every worker and then for the
\* event, is not blocked at the event.
C26_EventSetInTime ==
    /\ [](num_processes > 1 =>
            /\ (count_valid >= num_search /\ ~event) =>
                   \E w \in Jobs : lock = w /\ pc[w] = "w_store"
            /\ (jobs >= 1 /\ AllJobsDone) => event
            /\ pc[0] = "wait" => event)
    /\ [][/\ \A w \in Workers :
                 (pc[w] = "w_while" /\ count_valid >= num_search) => pc'[w] # "trav"
          /\ (~event /\ event') =>
                 \E w \in Jobs :
                     /\ lock = w
                     /\ pc[w] = "w_store"
                     /\ pc'[w] = "w_for"
                     /\ count_valid >= num_search]_vars

\* two workers have exited, the second having published a walk that was in
\* progress when the budget was met; the driver waits for the event, which
\* is set
C26_Witness ==
    /\ num_processes = 2
    /\ jobs = 2
    /\ AllJobsDone
    /\ pc[0] = "wait"
    /\ event
    /\ Len(published) > num_search

-----------------------------------------------------------------------------
(* Properties of the walks a valid traversal publishes *)

\* the walk handed to the validation is made of copies of its first n
\* segments, which are a circle
IdenticalUnits(p, n) ==
    /\ n < Len(p)
    /\ Len(p) % n = 0
    /\ HasPeriod(p, n)
    /\ is_circular_path(graph, SubSeq(p, 1, n))

\* C27 as claimed: a traversal whose walk passes the validity checks has at
\* least one walk to publish, so that count_valid and components_counts
\* grow: __decompose_hetero_units returns no empty list for a valid circular
\* walk, and a walk of identical units (A,B,A,B) is published as the single
\* unit, not as the double.
C27_ValidWalkPublished ==
    pc[0] = "for" =>
        /\ is_circular_path(graph, ValidatedWalk) => new_path_list[0] # <<>>
        /\ \A n \in 1 .. Len(path[0]) :
               (IdenticalUnits(path[0], n) /\ \A m \in 1 .. n - 1 : ~IdenticalUnits(path[0], m))
                   => new_path_list[0] =
                          <<get_standardized_circular_path(graph, SubSeq(path[0], 1, n))>>

\* a circular walk that covers the graph passed the validity checks and
\* __decompose_hetero_units returned the empty list for it
C27_NothingToPublish ==
    /\ pc[0] = "for"
    /\ ~invalid_search[0]
    /\ is_circular_path(graph, ValidatedWalk)
    /\ is_fully_covered_by(graph, ValidatedWalk)
    /\ Len(ValidatedWalk) >= Cardinality(vertex_info(graph)) * 2
    /\ new_path_list[0] = <<>>

-----------------------------------------------------------------------------
(* Properties of the extension handed to __heuristic_check_multiplicity *)

\* C28: the proposed extension of every call of __heuristic_check_multiplicity
\* is not empty: every entry suffix -> (read_id, strand) of the index of the
\* starts has 1 <= len(suffix) < len(read) and the read oriented by strand
\* begins with suffix, so the tail of a chosen candidate has a segment at
\* least; the extension by the graph proposes exactly one segment.
C28_ExtensionNotEmpty ==
    /\ \A suffix \in DOMAIN starting_subpath_to_readpaths :
           \A e \in starting_subpath_to_readpaths[suffix] :
               /\ e[1] \in ReadIds
               /\ 1 <= Len(suffix)
               /\ Len(suffix) < ReadLen(e[1])
               /\ IsPrefixOf(suffix, OrientedRead(read_paths[e[1] + 1], e[2]))
    /\ \A p \in Procs :
           Walking(p) =>
               /\ \A c \in Candidates(path[p]) : Len(NewExtend(c)) >= 1
               /\ \A prop \in Proposals(path[p]) :
                      /\ Len(prop.ext) >= 1
                      /\ GraphExtends(path[p]) => Len(prop.ext) = 1

\* the serial traverser proposes the tail of a candidate that overlaps the
\* walk by all segments of its read but the last: the tail is one segment
C28_Witness ==
    /\ num_processes = 1
    /\ Walking(0)
    /\ ~RollStops(path[0])
    /\ CandidateOverlaps(path[0]) # {}
    /\ \E c \in CandidateChoices(path[0]) :
           /\ c[3] = ReadLen(c[1]) - 1
           /\ c[3] >= 2
           /\ Len(NewExtend(c)) = 1
           /\ [ext |-> NewExtend(c), likes |-> 0] \in Proposals(path[0])

-----------------------------------------------------------------------------
(* Properties of the walk of a traversal *)

\* process p is in a traversal that has its seed
Seeded(p) == pc[p] = "trav" /\ path[p] # <<>>

\* C29: with filter_by_graph on, in every state of a traversal after seeding
\* the walk is not empty, its segments are segments of the graph and its
\* consecutive segments are joined by edges of the graph; read-tail
\* extension, contraction, graph extension, middle jump and reversal keep
\* this, and the walk gets shorter only by the roll of roll-stop.
C29_WalkInGraph ==
    /\ [](\A p \in Procs :
              (filter_by_graph /\ pc[p] \in {"trav", "ret"} /\ path[p] # <<>>) =>
                  contain_path(graph, path[p]))
    /\ [][\A p \in Procs :
              (filter_by_graph /\ Seeded(p)) =>
                  /\ path'[p] # <<>>
                  /\ Len(path'[p]) < Len(path[p]) =>
                         /\ RollStops(path[p])
                         /\ pc'[p] = "ret"
                         /\ path'[p] = roll_path(graph, path[p])]_vars

\* the walk of the serial traverser was extended and reversed: it is longer
\* than every read, not_do_reverse is set, and it is a path of the graph
C29_Witness ==
    /\ num_processes = 1
    /\ filter_by_graph
    /\ Seeded(0)
    /\ not_do_reverse[0]
    /\ \A id \in ReadIds : Len(path[0]) > ReadLen(id)
    /\ contain_path(graph, path[0])

-----------------------------------------------------------------------------
(* GraphAlignRecords: parsing and filtering an alignment file *)

\* most lines of an alignment file
MaxLines == 2

\* the paths of the lines; C is no vertex of the loop
LinePaths == {<<Fw(A)>>, <<Fw(A), Fw(B)>>, <<Fw(A), Fw(B), Fw(A)>>, <<Fw(C), Fw(B)>>}

\* the columns of a GAF line that the filters read: path, path length, start
\* and end on the path, residue matches, alignment block length; no id tag
GAFLines ==
    [path : LinePaths, p_len : {3}, p_start : {0, 1}, p_end : {2, 3},
     num_match : {1}, align_len : {1, 3}]

\* the columns of a SPAligner line that the filters read: the alignment on the
\* sequence from q_start to q_end, its start on the first edge, the path, and
\* the length aligned on the last edge (one base on every edge before it)
SPALines ==
    [path : LinePaths, q_start : {0}, q_end : {0, 2}, p_start : {0, 1},
     last_len : {1, 2}]

\* GAFRecord.__init__: identity is num_match / align_len, kept as the pair
GAFRecord(line) ==
    [path |-> line.path, p_len |-> line.p_len, p_start |-> line.p_start,
     p_end |-> line.p_end, p_align_len |-> line.p_end - line.p_start,
     align_len |-> line.align_len,
     identity |-> <<line.num_match, line.align_len>>,
     last_len |-> 0]

\* path_align_lengths of a SPAligner line
path_align_lengths(line) ==
    [i \in 1 .. Len(line.path) |-> IF i = Len(line.path) THEN line.last_len ELSE 1]

Abs(x) == IF x < 0 THEN 0 - x ELSE x

\* SPATSVRecord.__init__: no p_len and no identity
SPATSVRecord(line) ==
    [path |-> line.path, p_len |-> 0, p_start |-> line.p_start,
     p_end |-> line.p_start + SumSeq(path_align_lengths(line)),
     p_align_len |-> SumSeq(path_align_lengths(line)),
     align_len |-> Max(SumSeq(path_align_lengths(line)),
                       Abs(line.q_start - line.q_end) + 1),
     identity |-> <<0, 1>>,
     last_len |-> line.last_len]

\* the records made of the lines of the file
ReadRecords(ps) ==
    [i \in 1 .. Len(ps.lines) |->
        IF ps.alignment_format = "GAF" THEN GAFRecord(ps.lines[i])
        ELSE SPATSVRecord(ps.lines[i])]

\* record.identity < min_identity, min_identity in percent
IdentityBelow(rec, min_identity) ==
    rec.identity[1] * 100 < min_identity * rec.identity[2]

\* the condition of the second length filter
AlignLenFilterRuns(ps) == ps.min_align_len > ps.min_aligned_path_len

\* the three filters by thresholds
FilterRecords(ps, recs) ==
    The({ The({ IF ps.alignment_format = "GAF" /\ ps.min_identity # 0
                THEN SelectSeq(f2, LAMBDA r : ~IdentityBelow(r, ps.min_identity))
                ELSE f2 :
                f2 \in {IF AlignLenFilterRuns(ps)
                        THEN SelectSeq(f1, LAMBDA r : ~(r.align_len < ps.min_align_len))
                        ELSE f1} }) :
          f1 \in {IF ps.min_aligned_path_len # 0
                  THEN SelectSeq(recs, LAMBDA r : ~(r.p_align_len < ps.min_aligned_path_len))
                  ELSE recs} })

DelHead(rec, cond) == IF cond THEN [rec EXCEPT !.path = Tail(@)] ELSE rec

DelLast(rec, cond) ==
    IF cond THEN [rec EXCEPT !.path = SubSeq(@, 1, Len(@) - 1)] ELSE rec

\* one round of the trimming loop on a GAF record: the record as it is left,
\* and whether it stays in records
TrimGAF(g, overlap, rec) ==
    IF Len(rec.path) > 1
    THEN IF rec.path[1][1] \in vertex_info(g) /\ rec.path[Len(rec.path)][1] \in vertex_info(g)
         THEN LET head_vertex_len == vertex_len(g, rec.path[1][1])
                  tail_vertex_len == vertex_len(g, rec.path[Len(rec.path)][1])
                  trimmed == DelLast(DelHead(rec, head_vertex_len - rec.p_start <= overlap),
                                     tail_vertex_len - (rec.p_len - rec.p_end - 1) <= overlap)
              IN  [rec |-> trimmed, stays |-> trimmed.path # <<>>]
         ELSE [rec |-> rec, stays |-> FALSE]
    ELSE [rec |-> rec, stays |-> TRUE]

\* one round of the trimming loop on a SPAligner record
TrimSPA(g, overlap, rec) ==
    IF Len(rec.path) > 1
    THEN IF rec.path[1][1] \in vertex_info(g)
         THEN LET head_vertex_len == vertex_len(g, rec.path[1][1])
                  trimmed == DelLast(DelHead(rec, head_vertex_len - rec.p_start <= overlap),
                                     rec.last_len <= overlap)
              IN  [rec |-> trimmed, stays |-> trimmed.path # <<>>]
         ELSE [rec |-> rec, stays |-> FALSE]
    ELSE [rec |-> rec, stays |-> TRUE]

\* the trimming of the overlaps with the graph
TrimRecords(ps, g, recs) ==
    IF ps.trim_overlap_with_graph /\ ps.overlap # 0
    THEN LET rounds == [i \in 1 .. Len(recs) |->
                           IF ps.alignment_format = "GAF"
                           THEN TrimGAF(g, ps.overlap, recs[i])
                           ELSE TrimSPA(g, ps.overlap, recs[i])]
             left == SelectSeq(rounds, LAMBDA t : t.stays)
         IN  [i \in 1 .. Len(left) |-> left[i].rec]
    ELSE recs

parse_alignment_file_single(ps, g) ==
    TrimRecords(ps, g, FilterRecords(ps, ReadRecords(ps)))

\* the arguments of GraphAlignRecords and the lines of its file; min_identity
\* in percent, overlap the overlap of the assembly graph (0: none)
Parsers ==
    UNION { [alignment_format : {fmt},
             lines : SeqsUpTo(IF fmt = "GAF" THEN GAFLines ELSE SPALines, MaxLines),
             min_aligned_path_len : {0, 2},
             min_align_len : {0, 2, 3},
             min_identity : {0, 50},
             trim_overlap_with_graph : BOOLEAN,
             overlap : {0, 1}] : fmt \in {"GAF", "SPA-TSV"} }

\* GraphAlignRecords before parse_alignment_file, its graph the loop
InitParse ==
    /\ graph = 1
    /\ alignment = <<>>
    /\ InitFields
    /\ parser \in Parsers
    /\ records = <<>>
    /\ force_circular = TRUE
    /\ hetero_chromosome = TRUE
    /\ num_search = 1
    /\ num_processes = 1
    /\ decay_t = DecayT
    /\ cov_inert = TRUE
    /\ use_alignment_cov = FALSE
    /\ InitRun

ParseAlignmentFile ==
    /\ parser.alignment_format \in {"GAF", "SPA-TSV"}
    /\ pc[0] = "idle"
    /\ records' = parse_alignment_file_single(parser, graph)
    /\ pc' = [pc EXCEPT ![0] = "parsed"]
    /\ UNCHANGED <<idxVars, cfgVars, parser, covVars, storeVars, syncVars,
                   path, not_do_reverse, invalid_search, new_path_list>>

NextParse == ParseAlignmentFile

SpecParse == InitParse /\ [][NextParse]_vars

Parsed == pc[0] = "parsed"

RecordsOf(recs) == {recs[i] : i \in 1 .. Len(recs)}

\* C30 as claimed: after the parse every record in records has
\* p_align_len >= min_aligned_path_len and align_len >= min_align_len, a GAF
\* record has identity >= min_identity, and no record has an empty path.
C30_RecordsMeetThresholds ==
    Parsed =>
        \A rec \in RecordsOf(records) :
            /\ rec.p_align_len >= parser.min_aligned_path_len
            /\ rec.align_len >= parser.min_align_len
            /\ parser.alignment_format = "GAF" => ~IdentityBelow(rec, parser.min_identity)
            /\ rec.path # <<>>

\* min_align_len is not above min_aligned_path_len, and a GAF record whose
\* block is shorter than min_align_len is left in records
C30_ShortBlockKept ==
    /\ Parsed
    /\ parser.alignment_format = "GAF"
    /\ 0 < parser.min_align_len
    /\ parser.min_align_len <= parser.min_aligned_path_len
    /\ \E rec \in RecordsOf(records) :
           /\ rec.align_len < parser.min_align_len
           /\ rec.p_align_len >= parser.min_aligned_path_len

=============================================================================
